---- MODULE Spec2Model ----
(***************************************************************************)
(* Model of the response-shaping core of the Databricks MCP server         *)
(* (src/databricks/server/src/main.py): the notebook cell model            *)
(* (_parse_notebook_cells, _reconstruct_notebook, _validate_cell_content,  *)
(* read_notebook, update_notebook_cell) and the wait_for_run polling loop. *)
(*                                                                         *)
(* Text is modelled character by character: a Python str is a sequence of  *)
(* one-character strings, so len(), slicing, split, strip, startswith and  *)
(* the "in" operator are computed as Python computes them.  A Python list  *)
(* is a sequence; Python index i is position i + 1.  A Python dict is a    *)
(* function whose DOMAIN is its key set, so dict.get(k) is None exactly    *)
(* when k is not in the DOMAIN.                                            *)
(***************************************************************************)
EXTENDS Integers, Sequences, FiniteSets, TLC

----------------------------------------------------------------------------
(* Bounds of the model                                                     *)

\* longest initial document, in lines
MaxLines == 2
\* longest batch of edits in one update request
MaxBatch == 2
\* stands for MAX_CELL_CONTENT (50_000 in the source), scaled down so that
\* cells longer than the per-cell budget occur among the bounded documents
MAX_CELL_CONTENT == 2
\* stands for MAX_LIST_ITEMS (100 in the source), scaled down so that
\* collections longer than the default window occur
MAX_LIST_ITEMS == 2
\* most items of an upstream collection
MaxItems == 3
\* stands for the literal 100 that caps limit and page_size in the source,
\* scaled down with the collections
LimitCap == 2
\* stands for the default limit of list_clusters (25 in the source)
DefaultClusterLimit == 1
\* most children of a block, and most levels of blocks below a page
MaxWidth == 3
MaxDepth == 3

----------------------------------------------------------------------------
(* Python str / list primitives                                            *)

NL == "\n"

\* characters removed by str.strip()
Whitespace == {" ", "\t", "\n", "\r"}

\* s.startswith(p)
StartsWith(s, p) == Len(s) >= Len(p) /\ SubSeq(s, 1, Len(p)) = p

\* p in s  (substring test)
Contains(s, p) ==
    \E i \in 0..(Len(s) - Len(p)) : SubSeq(s, i + 1, i + Len(p)) = p

RECURSIVE LStrip(_)
LStrip(s) ==
    IF s # <<>> /\ Head(s) \in Whitespace THEN LStrip(Tail(s)) ELSE s

RECURSIVE RStrip(_)
RStrip(s) ==
    IF s # <<>> /\ s[Len(s)] \in Whitespace
    THEN RStrip(SubSeq(s, 1, Len(s) - 1))
    ELSE s

\* s.strip()
Strip(s) == RStrip(LStrip(s))

\* s.split(sep) for a one-character sep: never empty, "" splits to [""].
\* SplitFrom(s, sep, i) splits s[i..]; j is the first sep at or after i.
RECURSIVE SplitFrom(_, _, _)
SplitFrom(s, sep, i) ==
    LET at == {j \in i..Len(s) : s[j] = sep}
    IN  IF at = {} THEN <<SubSeq(s, i, Len(s))>>
        ELSE LET j == CHOOSE j \in at : \A k \in at : j <= k
             IN  <<SubSeq(s, i, j - 1)>> \o SplitFrom(s, sep, j + 1)

Split(s, sep) == SplitFrom(s, sep, 1)

\* sep.join(parts)
RECURSIVE Join(_, _)
Join(sep, parts) ==
    IF parts = <<>> THEN <<>>
    ELSE IF Len(parts) = 1 THEN parts[1]
    ELSE parts[1] \o sep \o Join(sep, Tail(parts))

\* s[:n] for n >= 0
Take(s, n) == SubSeq(s, 1, IF n < Len(s) THEN n ELSE Len(s))

\* the sequences over S of length lo .. hi
SeqsOf(S, lo, hi) == UNION {[1..n -> S] : n \in lo..hi}

----------------------------------------------------------------------------
(* Notebook cell model                                                     *)

HashCommand == <<"#", " ", "C", "O", "M", "M", "A", "N", "D">>
Dashes == <<"-", "-", "-", "-", "-", "-", "-", "-", "-", "-">>

\* CELL_SEPARATOR = "# COMMAND ----------"
CELL_SEPARATOR == HashCommand \o <<" ">> \o Dashes

\* the loop body of _parse_notebook_cells over lines[k..]:
\* cells and current_cell are the two accumulators of the source
RECURSIVE ParseLines(_, _, _, _)
ParseLines(lines, k, cells, current_cell) ==
    IF k > Len(lines)
    THEN IF current_cell # <<>>
         THEN Append(cells, Join(<<NL>>, current_cell))
         ELSE cells
    ELSE IF StartsWith(Strip(lines[k]), CELL_SEPARATOR)
         THEN IF current_cell # <<>>
              THEN ParseLines(lines, k + 1,
                              Append(cells, Join(<<NL>>, current_cell)), <<>>)
              ELSE ParseLines(lines, k + 1, cells, current_cell)
         ELSE ParseLines(lines, k + 1, cells, Append(current_cell, lines[k]))

_parse_notebook_cells(content) == ParseLines(Split(content, NL), 1, <<>>, <<>>)

\* variant: the separator is joined with single newlines
_reconstruct_notebook_tight(cells) ==
    Join(<<NL>> \o CELL_SEPARATOR \o <<NL>>, cells)

_reconstruct_notebook(cells) ==
    Join(<<NL, NL>> \o CELL_SEPARATOR \o <<NL, NL>>, cells)

\* variant: only the exact separator string is looked for
_validate_cell_content_exact(content) ==
    IF Contains(content, CELL_SEPARATOR)
    THEN <<FALSE, "Cell content cannot contain '# COMMAND ----------' separator">>
    ELSE <<TRUE, "">>

\* returns <<valid, error_msg>>
_validate_cell_content(content) ==
    IF Contains(content, CELL_SEPARATOR)
       \/ (Contains(content, HashCommand) /\ Contains(content, Dashes))
    THEN <<FALSE, "Cell content cannot contain '# COMMAND ----------' separator">>
    ELSE <<TRUE, "">>

----------------------------------------------------------------------------
(* truncate_text                                                           *)

Digit(d) == CASE d = 0 -> "0" [] d = 1 -> "1" [] d = 2 -> "2" [] d = 3 -> "3"
              [] d = 4 -> "4" [] d = 5 -> "5" [] d = 6 -> "6" [] d = 7 -> "7"
              [] d = 8 -> "8" [] d = 9 -> "9"

\* the three digits of a full thousands group
Group3(n) == <<Digit(n \div 100), Digit((n \div 10) % 10), Digit(n % 10)>>

RECURSIVE Decimal(_)
Decimal(n) == IF n < 10 THEN <<Digit(n)>>
              ELSE Append(Decimal(n \div 10), Digit(n % 10))

\* f"{n:,}" for n >= 0
RECURSIVE FormatThousands(_)
FormatThousands(n) ==
    IF n < 1000 THEN Decimal(n)
    ELSE FormatThousands(n \div 1000) \o <<",">> \o Group3(n % 1000)

\* f"\n\n[... truncated, showing {max_size:,} of {len(text):,} chars]"
TruncationSuffix(max_size, total) ==
    <<NL, NL, "[", ".", ".", ".", " ",
      "t", "r", "u", "n", "c", "a", "t", "e", "d", ",", " ",
      "s", "h", "o", "w", "i", "n", "g", " ">>
    \o FormatThousands(max_size) \o <<" ", "o", "f", " ">>
    \o FormatThousands(total) \o <<" ", "c", "h", "a", "r", "s", "]">>

\* the variant that also cuts a text of exactly max_size characters
truncate_text_cutting_at_limit(text, max_size, field_name) ==
    IF text = <<>> \/ Len(text) < max_size
    THEN <<text, <<>>>>
    ELSE <<Take(text, max_size) \o TruncationSuffix(max_size, Len(text)),
           [f \in {field_name} |->
               [truncated |-> TRUE, total_size |-> Len(text),
                shown_size |-> max_size]]>>

\* the metadata dict is keyed by the field name: f"{field_name}_truncated" ...
\* is modelled as one entry field_name -> [truncated, total_size, shown_size]
truncate_text(text, max_size, field_name) ==
    IF text = <<>> \/ Len(text) <= max_size
    THEN <<text, <<>>>>
    ELSE <<Take(text, max_size) \o TruncationSuffix(max_size, Len(text)),
           [f \in {field_name} |->
               [truncated |-> TRUE, total_size |-> Len(text),
                shown_size |-> max_size]]>>

----------------------------------------------------------------------------
(* read_notebook                                                           *)

\* Python list slice s[a:b]: negative bounds count from the end, both are
\* clamped to 0 .. len(s)
SliceBound(n, len) == IF n < 0 THEN (IF len + n < 0 THEN 0 ELSE len + n)
                      ELSE IF n > len THEN len ELSE n

PySlice(s, a, b) ==
    LET lo == SliceBound(a, Len(s))
        hi == SliceBound(b, Len(s))
    IN  IF lo >= hi THEN <<>> ELSE SubSeq(s, lo + 1, hi)

\* args.get(key, default)
Get(args, key, default) == IF key \in DOMAIN args THEN args[key] ELSE default

\* the handler applied to the upstream document `content` (what
\* client.workspace.export returns, decoded)
read_notebook(content, args) ==
    LET cell_offset == Get(args, "cell_offset", 0)
        all_cells == _parse_notebook_cells(content)
        total_cells == Len(all_cells)
        cells_to_return ==
            IF "cell_limit" \in DOMAIN args
            THEN PySlice(all_cells, cell_offset, cell_offset + args.cell_limit)
            ELSE PySlice(all_cells, cell_offset, total_cells)
        cells_output ==
            [i \in 1..Len(cells_to_return) |->
                IF Len(cells_to_return[i]) > MAX_CELL_CONTENT
                THEN truncate_text(cells_to_return[i], MAX_CELL_CONTENT, "cell")[1]
                ELSE cells_to_return[i]]
        \* keyed by actual_index = cell_offset + i (i counted from 0)
        truncation_info ==
            [actual_index \in
                {cell_offset + i - 1 : i \in
                    {j \in 1..Len(cells_to_return) :
                        Len(cells_to_return[j]) > MAX_CELL_CONTENT}} |->
                [truncated |-> TRUE,
                 total_size |-> Len(cells_to_return[actual_index - cell_offset + 1]),
                 shown_size |-> MAX_CELL_CONTENT]]
        result == [total_cells |-> total_cells,
                   cells_returned |-> Len(cells_output),
                   cell_offset |-> cell_offset,
                   cells |-> cells_output]
        with_truncation ==
            IF DOMAIN truncation_info # {}
            THEN result @@ [truncated_cells |-> truncation_info]
            ELSE result
    IN  IF cell_offset + Len(cells_output) < total_cells
        THEN with_truncation @@
             [has_more |-> TRUE, next_offset |-> cell_offset + Len(cells_output)]
        ELSE with_truncation

----------------------------------------------------------------------------
(* list_notebooks                                                          *)

\* Python's None
None == "None"

\* variant: one more window is announced when the last item was returned
MoreAvailableInclusive(offset, returned, total) == offset + returned <= total

\* if offset + len(paginated_items) < total_count
MoreAvailable(offset, returned, total) == offset + returned < total

\* variant: the window starts one item late
WindowSkippingOne(all_items, offset, limit) ==
    PySlice(all_items, offset + 1, offset + limit + 1)

\* all_items[offset:offset + limit]
Window(all_items, offset, limit) == PySlice(all_items, offset, offset + limit)

\* the handler applied to what client.workspace.list yields
list_notebooks(items, args) ==
    LET limit == Get(args, "limit", MAX_LIST_ITEMS)
        offset == Get(args, "offset", 0)
        all_items ==
            [i \in 1..Len(items) |->
                [path |-> items[i].path,
                 type |-> IF items[i].object_type # None
                          THEN items[i].object_type ELSE "UNKNOWN",
                 language |-> items[i].language]]
        total_count == Len(all_items)
        paginated_items == Window(all_items, offset, limit)
        result == [items |-> paginated_items,
                   total_count |-> total_count,
                   returned_count |-> Len(paginated_items),
                   offset |-> offset]
    IN  IF MoreAvailable(offset, Len(paginated_items), total_count)
        THEN result @@
             [has_more |-> TRUE, next_offset |-> offset + Len(paginated_items)]
        ELSE result

----------------------------------------------------------------------------
(* list_clusters                                                           *)

Min(a, b) == IF a < b THEN a ELSE b

\* state = cluster.state.value if cluster.state else "UNKNOWN"
ClusterState(cluster) ==
    IF cluster.state # None THEN cluster.state ELSE "UNKNOWN"

\* variant: every cluster passes the filter
PassesFilterAlways(filter_by, state) == TRUE

\* the two filter tests of the loop: FALSE where the loop says continue
PassesFilter(filter_by, state) ==
    /\ ~(filter_by = "running" /\ state # "RUNNING")
    /\ ~(filter_by = "terminated" /\ state # "TERMINATED")

\* the loop over clusters_iter from position k on, with the clusters
\* collected and the count reached so far
RECURSIVE CollectClusters(_, _, _, _, _, _)
CollectClusters(clusters_iter, k, filter_by, limit, clusters, total_matched) ==
    IF k > Len(clusters_iter)
    THEN [clusters |-> clusters, total_matched |-> total_matched]
    ELSE LET cluster == clusters_iter[k]
             state == ClusterState(cluster)
         IN  IF ~PassesFilter(filter_by, state)
             THEN CollectClusters(clusters_iter, k + 1, filter_by, limit,
                                  clusters, total_matched)
             ELSE CollectClusters(clusters_iter, k + 1, filter_by, limit,
                     IF Len(clusters) < limit
                     THEN Append(clusters, [cluster_id |-> cluster.cluster_id,
                                            state |-> state])
                     ELSE clusters,
                     total_matched + 1)

\* the handler applied to what client.clusters.list yields
list_clusters(clusters_iter, args) ==
    LET filter_by == Get(args, "filter_by", "all")
        limit == Min(Get(args, "limit", DefaultClusterLimit), LimitCap)
        loop == CollectClusters(clusters_iter, 1, filter_by, limit, <<>>, 0)
        result == [clusters |-> loop.clusters,
                   returned |-> Len(loop.clusters),
                   total_matched |-> loop.total_matched]
    IN  IF loop.total_matched > limit
        THEN result @@
             [truncated |-> TRUE,
              message |-> [text |-> "Showing {limit} of {total_matched} clusters",
                           limit |-> limit,
                           total_matched |-> loop.total_matched]]
        ELSE result

----------------------------------------------------------------------------
(* The list tools of the Notion server                                     *)

\* the opaque cursor the Notion API hands out for position n of a list
CursorNames == [n \in 1..(MaxItems + 2) |-> <<"cursor", n>>]
CursorAt(n) == CursorNames[n]
PositionOf(cursor) == CHOOSE n \in DOMAIN CursorNames : CursorNames[n] = cursor

NoCursor == <<>>

\* what the Notion API answers to a list request: the window of at most
\* page_size items (100 when none is sent, here LimitCap) from the cursor on
NotionAnswer(items, request) ==
    LET size == Get(request, "page_size", LimitCap)
        from == IF "start_cursor" \in DOMAIN request
                THEN PositionOf(request.start_cursor) ELSE 0
        results == PySlice(items, from, from + Min(size, LimitCap))
        more == from + Len(results) < Len(items)
    IN  [results |-> results,
         has_more |-> more,
         next_cursor |-> IF more THEN CursorAt(from + Len(results)) ELSE NoCursor]

\* the page_size and start_cursor entries of the request body or params
PagingOf(args) ==
    (IF "page_size" \in DOMAIN args
     THEN [page_size |-> Min(args.page_size, LimitCap)] ELSE <<>>)
    @@ (IF "start_cursor" \in DOMAIN args
        THEN [start_cursor |-> args.start_cursor] ELSE <<>>)

\* query_data_source: one POST, the results formatted
query_data_source(items, args) ==
    LET body == PagingOf(args)
        data == NotionAnswer(items, body)
        pages == PySlice(data.results, 0, MAX_LIST_ITEMS)
        results == [i \in DOMAIN pages |-> [id |-> pages[i].id]]
    IN  [sent |-> body,
         result |-> [results |-> results,
                     has_more |-> data.has_more,
                     next_cursor |-> data.next_cursor,
                     result_count |-> Len(results)]]

\* search: one POST, the results formatted
search(items, args) ==
    LET body == [query |-> args.query] @@ PagingOf(args)
        data == NotionAnswer(items, body)
        found == PySlice(data.results, 0, MAX_LIST_ITEMS)
        results == [i \in DOMAIN found |->
                       [id |-> found[i].id, type |-> found[i].object]]
    IN  [sent |-> body,
         result |-> [results |-> results,
                     has_more |-> data.has_more,
                     next_cursor |-> data.next_cursor,
                     result_count |-> Len(results)]]

\* list_users: one GET, the users formatted
list_users(items, args) ==
    LET params == PagingOf(args)
        data == NotionAnswer(items, params)
        users == PySlice(data.results, 0, MAX_LIST_ITEMS)
    IN  [sent |-> params,
         result |-> [users |-> [i \in DOMAIN users |-> [id |-> users[i].id]],
                     has_more |-> data.has_more,
                     next_cursor |-> data.next_cursor]]

----------------------------------------------------------------------------
(* get_page_content                                                        *)

\* The upstream page.  A block is named by its path from the page: the page
\* is <<>>, its i-th child <<i>>, the j-th child of that <<i, j>>.  A shape
\* [width, parents, depth] gives every block that has children `width` of
\* them; the children numbered in `parents` have children themselves, down
\* to level `depth`.
HasChildren(shape, id) ==
    /\ shape.width > 0
    /\ Len(id) < shape.depth
    /\ id # <<>> => id[Len(id)] \in shape.parents

\* a block as the Notion API returns it
Block(shape, id) ==
    [id |-> id,
     type |-> IF HasChildren(shape, id) THEN "toggle" ELSE "paragraph",
     has_children |-> HasChildren(shape, id)]

\* the children of a block, in upstream order
ChildrenOf(shape, id) ==
    IF HasChildren(shape, id)
    THEN [i \in 1..shape.width |-> Block(shape, Append(id, i))]
    ELSE <<>>

\* format_block: id and type, and the has_children flag when it is set
format_block(block) ==
    [id |-> block.id, type |-> block.type]
    @@ (IF block.has_children THEN [has_children |-> TRUE] ELSE <<>>)

\* GET /blocks/{block_id}/children as an entry of the request log
ChildrenRequest(block_id, params) == [block_id |-> block_id, params |-> params]

\* response.raise_for_status() raised: nothing is returned
Raised(log) == [ok |-> FALSE, blocks |-> <<>>, log |-> log]

\* variant: a failed fetch of children is taken for an empty list
ChildFailureSwallowed(child, log) == [ok |-> TRUE, blocks |-> <<>>, log |-> log]

\* an exception in the fetch of the children passes through the caller
ChildFailure(child, log) == Raised(log)

\* variant: the level is left after its first window
NextWindowNever(fetch_all, data) == FALSE

\* the loop goes on: not (not fetch_all or not data.get("has_more"))
NextWindow(fetch_all, data) == fetch_all /\ data.has_more

\* fetch_blocks: FetchWindows is the while loop from one request on,
\* FetchEach the for loop over the blocks of a window from position k on
RECURSIVE FetchWindows(_, _, _, _, _, _)
RECURSIVE FetchEach(_, _, _, _, _, _, _)
FetchWindows(page, fetch_all, block_id, params, all_blocks, log) ==
    LET sent == Append(log, ChildrenRequest(block_id, params))
    IN  IF block_id \in page.broken
        THEN Raised(sent)
        ELSE LET data == NotionAnswer(ChildrenOf(page.shape, block_id), params)
                 each == FetchEach(page, fetch_all, params.page_size,
                                   data.results, 1, all_blocks, sent)
             IN  IF ~each.ok
                 THEN each
                 ELSE IF ~NextWindow(fetch_all, data)
                      THEN each
                      ELSE FetchWindows(page, fetch_all, block_id,
                               [page_size |-> params.page_size,
                                start_cursor |-> data.next_cursor],
                               each.blocks, each.log)

FetchEach(page, fetch_all, page_size, results, k, all_blocks, log) ==
    IF k > Len(results)
    THEN [ok |-> TRUE, blocks |-> all_blocks, log |-> log]
    ELSE LET block == results[k]
             formatted == format_block(block)
         IN  IF fetch_all /\ block.has_children
             THEN LET fetched == FetchWindows(page, fetch_all, block.id,
                                     [page_size |-> page_size], <<>>, log)
                      children == IF fetched.ok THEN fetched
                                  ELSE ChildFailure(block, fetched.log)
                  IN  IF ~children.ok
                      THEN children
                      ELSE FetchEach(page, fetch_all, page_size, results, k + 1,
                               Append(all_blocks,
                                      formatted @@ [children |-> children.blocks]),
                               children.log)
             ELSE FetchEach(page, fetch_all, page_size, results, k + 1,
                            Append(all_blocks, formatted), log)

fetch_blocks(page, fetch_all, page_size, block_id) ==
    FetchWindows(page, fetch_all, block_id, [page_size |-> page_size], <<>>, <<>>)

\* variant: the single window is always read from the start
SingleWindowParamsFromStart(args, page_size) == [page_size |-> page_size]

\* params = {"page_size": page_size}, with start_cursor when the caller
\* gave one
SingleWindowParams(args, page_size) ==
    [page_size |-> page_size]
    @@ (IF "start_cursor" \in DOMAIN args
        THEN [start_cursor |-> args.start_cursor] ELSE <<>>)

\* what call_tool returns when an upstream request raised HTTPStatusError
NotionApiError == [error |-> "Notion API Error"]

\* the handler, with call_tool's except clause, applied to the upstream page
get_page_content(page, args) ==
    LET page_id == args.page_id
        fetch_all == Get(args, "fetch_all", TRUE)
        page_size == Min(Get(args, "page_size", LimitCap), LimitCap)
    IN  IF fetch_all
        THEN LET fetched == fetch_blocks(page, fetch_all, page_size, page_id)
             IN  [log |-> fetched.log,
                  result |-> IF fetched.ok THEN [blocks |-> fetched.blocks]
                             ELSE NotionApiError]
        ELSE LET params == SingleWindowParams(args, page_size)
                 log == <<ChildrenRequest(page_id, params)>>
             IN  IF page_id \in page.broken
                 THEN [log |-> log, result |-> NotionApiError]
                 ELSE LET data == NotionAnswer(ChildrenOf(page.shape, page_id),
                                               params)
                      IN  [log |-> log,
                           result |->
                             [blocks |-> [i \in DOMAIN data.results |->
                                            format_block(data.results[i])],
                              has_more |-> data.has_more,
                              next_cursor |-> data.next_cursor]]

----------------------------------------------------------------------------
(* truncate_text on optional fields, and the Notion server's truncate_text  *)

\* truncate_text applied to a field that may be None: `not text` is true
\* for None as for "", and the field is returned as it is
truncate_field(field, max_size, field_name) ==
    IF field.is_none
    THEN <<None, <<>>>>
    ELSE truncate_text(field.text, max_size, field_name)

\* the Notion server's truncate_text(text, max_size): the text alone
notion_truncate_text(text, max_size) ==
    IF text = <<>> \/ Len(text) <= max_size
    THEN text
    ELSE Take(text, max_size) \o TruncationSuffix(max_size, Len(text))

notion_truncate_field(field, max_size) ==
    IF field.is_none THEN None ELSE notion_truncate_text(field.text, max_size)

----------------------------------------------------------------------------
(* call_tool of the two servers                                            *)

\* the budget of a whole response (scaled stand-in for 100_000)
MAX_TEXT_SIZE == 3

ErrorPrefix == <<"E", "r", "r", "o", "r", ":", " ">>
NotionApiErrorPrefix ==
    <<"N", "o", "t", "i", "o", "n", " ", "A", "P", "I", " ",
      "E", "r", "r", "o", "r", " ">>

\* what the handler dispatched by call_tool came to:
\*   [kind |-> "result", text |-> the serialised result]
\*   [kind |-> "http_error", status |-> code, text |-> e.response.text]
\*   [kind |-> "exception", type |-> type(e).__name__, text |-> str(e)]

\* f"Error: {type(e).__name__}: {str(e)}"
ErrorText(outcome) == ErrorPrefix \o outcome.type \o <<":", " ">> \o outcome.text

\* the text of the one TextContent returned by the Notion call_tool
notion_call_tool(outcome) ==
    CASE outcome.kind = "result" ->
            notion_truncate_text(outcome.text, MAX_TEXT_SIZE)
      [] outcome.kind = "http_error" ->
            NotionApiErrorPrefix \o Decimal(outcome.status)
                \o <<":", " ">> \o outcome.text
      [] outcome.kind = "exception" -> ErrorText(outcome)

\* the text of the one TextContent returned by the Databricks call_tool:
\* str(result), or the error text
databricks_call_tool(outcome) ==
    CASE outcome.kind = "result" -> outcome.text
      [] outcome.kind = "exception" -> ErrorText(outcome)

----------------------------------------------------------------------------
(* get_run_logs                                                            *)

\* the default of max_size (scaled stand-in for 80_000)
MAX_LOG_SIZE == 2

\* str(n) and f"{n:,}" for any integer n
PyInt(n) == IF n < 0 THEN <<"-">> \o Decimal(0 - n) ELSE Decimal(n)
PyIntThousands(n) ==
    IF n < 0 THEN <<"-">> \o FormatThousands(0 - n) ELSE FormatThousands(n)

\* f"\n\n[... truncated, showing {max_size:,} chars starting at offset
\* {offset}. Total size: {total_size:,} chars]"
LogTruncationNote(max_size, offset, total_size) ==
    <<NL, NL, "[", ".", ".", ".", " ",
      "t", "r", "u", "n", "c", "a", "t", "e", "d", ",", " ",
      "s", "h", "o", "w", "i", "n", "g", " ">>
    \o PyIntThousands(max_size)
    \o <<" ", "c", "h", "a", "r", "s", " ",
         "s", "t", "a", "r", "t", "i", "n", "g", " ", "a", "t", " ",
         "o", "f", "f", "s", "e", "t", " ">>
    \o PyInt(offset)
    \o <<".", " ", "T", "o", "t", "a", "l", " ", "s", "i", "z", "e", ":", " ">>
    \o PyIntThousands(total_size)
    \o <<" ", "c", "h", "a", "r", "s", "]">>

NoLogsAvailable ==
    <<"N", "o", " ", "l", "o", "g", "s", " ",
      "a", "v", "a", "i", "l", "a", "b", "l", "e">>

\* variant: the next chunk starts on the last character of this one
NextLogOffsetOverlapping(offset, max_size) == offset + max_size - 1

\* result["next_offset"] = offset + max_size
NextLogOffset(offset, max_size) == offset + max_size

\* the handler applied to the run output `output` that
\* client.jobs.get_run_output returns: [has_logs, logs, logs_truncated], a
\* run output without error and error_trace
get_run_logs(output, args) ==
    LET offset == Get(args, "offset", 0)
        max_size == Get(args, "max_size", MAX_LOG_SIZE)
        full == IF output.has_logs THEN output.logs ELSE <<>>
        total_size == Len(full)
        from_offset == IF offset > 0 THEN PySlice(full, offset, total_size)
                       ELSE full
        logs_truncated_by_us == Len(from_offset) > max_size
        logs == IF logs_truncated_by_us
                THEN PySlice(from_offset, 0, max_size)
                         \o LogTruncationNote(max_size, offset, total_size)
                ELSE from_offset
        result == [logs |-> IF logs # <<>> THEN logs ELSE NoLogsAvailable,
                   logs_total_size |-> total_size,
                   logs_offset |-> offset,
                   logs_truncated_by_databricks |-> output.logs_truncated,
                   logs_truncated_by_limit |-> logs_truncated_by_us]
    IN  IF logs_truncated_by_us
        THEN result @@ [next_offset |-> NextLogOffset(offset, max_size)]
        ELSE result

----------------------------------------------------------------------------
(* update_notebook_cell                                                    *)

\* variant: the bounds check lets idx = len(cells) through
RECURSIVE ValidateUpdatesOffByOne(_, _, _)
ValidateUpdatesOffByOne(cells, updates_to_apply, k) ==
    IF k > Len(updates_to_apply) THEN [status |-> "ok"]
    ELSE LET idx == updates_to_apply[k].index
             cell_content == updates_to_apply[k].content
         IN  IF idx < 0 \/ idx > Len(cells)
             THEN [status |-> "error",
                   message |-> [text |-> "Cell index out of bounds",
                                idx |-> idx,
                                ncells |-> Len(cells),
                                first |-> 0,
                                last |-> Len(cells) - 1]]
             ELSE IF ~_validate_cell_content(cell_content)[1]
             THEN [status |-> "error",
                   message |-> [text |-> "Invalid content for cell",
                                idx |-> idx,
                                error_msg |-> _validate_cell_content(cell_content)[2]]]
             ELSE ValidateUpdatesOffByOne(cells, updates_to_apply, k + 1)

\* the "Validate all updates" loop from update k on: the error result of the
\* first update that fails a check, or [status |-> "ok"] when none does
RECURSIVE ValidateUpdates(_, _, _)
ValidateUpdates(cells, updates_to_apply, k) ==
    IF k > Len(updates_to_apply) THEN [status |-> "ok"]
    ELSE LET idx == updates_to_apply[k].index
             cell_content == updates_to_apply[k].content
         IN  IF idx < 0 \/ idx >= Len(cells)
             THEN [status |-> "error",
                   message |-> [text |-> "Cell index out of bounds",
                                idx |-> idx,
                                ncells |-> Len(cells),
                                first |-> 0,
                                last |-> Len(cells) - 1]]
             ELSE IF ~_validate_cell_content(cell_content)[1]
             THEN [status |-> "error",
                   message |-> [text |-> "Invalid content for cell",
                                idx |-> idx,
                                error_msg |-> _validate_cell_content(cell_content)[2]]]
             ELSE ValidateUpdates(cells, updates_to_apply, k + 1)

\* variant: only the first update of the list is applied
ApplyFirstUpdateOnly(cells, updates_to_apply, k) ==
    IF k > Len(updates_to_apply) THEN cells
    ELSE [cells EXCEPT ![updates_to_apply[k].index + 1] =
             updates_to_apply[k].content]

\* the "Apply updates" loop from update k on: cells[idx] = update["content"]
RECURSIVE ApplyUpdates(_, _, _)
ApplyUpdates(cells, updates_to_apply, k) ==
    IF k > Len(updates_to_apply) THEN cells
    ELSE ApplyUpdates(
             [cells EXCEPT ![updates_to_apply[k].index + 1] =
                 updates_to_apply[k].content],
             updates_to_apply, k + 1)

\* the upstream calls of the handler, as the workspace client sees them
ExportCall == [op |-> "export", format |-> "SOURCE"]
ImportCall(content) == [op |-> "import_", content |-> content, overwrite |-> TRUE]

\* variant: the both-modes check is missing, so cell_index wins over updates
InputModeErrorSingleWins(args) ==
    LET has_single == "cell_index" \in DOMAIN args
        has_batch == "updates" \in DOMAIN args
    IN  IF ~has_single /\ ~has_batch
        THEN "Must provide either cell_index+new_content or updates array"
        ELSE IF has_single /\ "new_content" \notin DOMAIN args
        THEN "new_content is required when using cell_index"
        ELSE ""

\* the "Validate input combinations" checks: the error message of the first
\* check that fails, or "" when the call may proceed
InputModeError(args) ==
    LET has_single == "cell_index" \in DOMAIN args
        has_batch == "updates" \in DOMAIN args
    IN  IF has_single /\ has_batch
        THEN "Provide either cell_index+new_content OR updates, not both"
        ELSE IF ~has_single /\ ~has_batch
        THEN "Must provide either cell_index+new_content or updates array"
        ELSE IF has_single /\ "new_content" \notin DOMAIN args
        THEN "new_content is required when using cell_index"
        ELSE ""

\* the handler applied to the upstream document `upstream`: its result, the
\* upstream calls it made in order, and the upstream document it leaves
update_notebook_cell(upstream, args) ==
    IF InputModeError(args) # ""
    THEN [result |-> [status |-> "error",
                      message |-> [text |-> InputModeError(args)]],
          calls |-> <<>>,
          upstream |-> upstream]
    ELSE
    LET has_single == "cell_index" \in DOMAIN args
        \* client.workspace.export + b64decode
        content == upstream
        cells == _parse_notebook_cells(content)
        updates_to_apply ==
            IF has_single
            THEN <<[index |-> args.cell_index, content |-> args.new_content]>>
            ELSE args.updates
        checked == ValidateUpdates(cells, updates_to_apply, 1)
    IN  IF checked.status = "error"
        THEN [result |-> checked,
              calls |-> <<ExportCall>>,
              upstream |-> upstream]
        ELSE
        LET new_cells == ApplyUpdates(cells, updates_to_apply, 1)
            new_notebook_content == _reconstruct_notebook(new_cells)
        IN  [result |-> [status |-> "success",
                         updated_cells |->
                             [k \in 1..Len(updates_to_apply) |->
                                 updates_to_apply[k].index],
                         total_cells |-> Len(new_cells)],
             calls |-> <<ExportCall, ImportCall(new_notebook_content)>>,
             \* client.workspace.import_(..., overwrite=True)
             upstream |-> new_notebook_content]

----------------------------------------------------------------------------
(* State                                                                   *)

VARIABLES
    notebook,   \* the upstream notebook source held by the workspace
    phase,      \* the caller: "idle", "viewed" (holds a read result), "done"
    view,       \* the caller's partial view: the last read_notebook result
    request,    \* the tool call handled last: [tool, args]
    response,   \* the result dict returned for it
    calls,      \* the upstream calls the last handler made, in order
    before      \* the upstream notebook when the last handler started

nbVars == <<notebook, phase, view, request, response, calls, before>>

\* the cell functions applied on their own to one input
VARIABLES
    input,      \* [kind |-> "cells" or "text", value |-> the argument]
    output,     \* the value returned by the function applied last
    pc          \* "start", "reconstructed", "parsed", "parsedText" ("off": unused)

cellVars == <<input, output, pc>>

\* one wait_for_run call and the run it waits for
VARIABLES
    run,        \* the upstream run: [life_cycle_state, result_state]
    waiter,     \* the call: its arguments, locals, position and counters
    cancel      \* the result of the caller's cancel_run call (<<>>: none made)

waitVars == <<run, waiter, cancel>>

\* two wait_for_run calls in flight together and the runs they wait for
VARIABLES
    runs,       \* run_id -> the upstream run
    waiters     \* call -> the call, as waiter above, with its run_id

wait2Vars == <<runs, waiters>>

\* a caller that reads a collection window by window
VARIABLES
    collection, \* the upstream: workspace items, or the notebook source
    pager       \* the caller: tool, limit, last arguments and result, windows

pageVars == <<collection, pager>>

\* one call of a list tool
VARIABLES
    listed,     \* the upstream collection the tool lists
    lister      \* the call: tool, arguments, request sent upstream, result

listVars == <<listed, lister>>

\* one get_page_content call on a page of nested blocks
VARIABLES
    tree,       \* the upstream page: its shape and the blocks whose fetch fails
    fetcher     \* the call: arguments, requests sent upstream in order, result

treeVars == <<tree, fetcher>>


\* truncate_text and call_tool applied to one input
VARIABLES
    payload,    \* the input: a truncate_text call, or a handler's outcome
    reply,      \* what was returned for it
    stage       \* "start", "truncated", "replied" ("off": unused)

textVars == <<payload, reply, stage>>


\* a caller that reads the logs of a run chunk by chunk
VARIABLES
    logstore,   \* the upstream run output: [has_logs, logs, logs_truncated]
    reader      \* the caller: max_size, last arguments and result, chunks

logVars == <<logstore, reader>>


\* two update_notebook_cell calls on one notebook, served by two processes
VARIABLES
    shared,     \* the upstream notebook source both calls export and import
    updaters    \* call -> its arguments, position, exported text and result

raceVars == <<shared, updaters>>

vars == <<nbVars, cellVars, waitVars, wait2Vars, pageVars, listVars, treeVars, textVars, logVars, raceVars>>

\* the variables each specification leaves alone
nbOthers == <<cellVars, waitVars, wait2Vars, pageVars, listVars, treeVars, textVars, logVars, raceVars>>
cellOthers == <<nbVars, waitVars, wait2Vars, pageVars, listVars, treeVars, textVars, logVars, raceVars>>
waitOthers == <<nbVars, cellVars, wait2Vars, pageVars, listVars, treeVars, textVars, logVars, raceVars>>
wait2Others == <<nbVars, cellVars, waitVars, pageVars, listVars, treeVars, textVars, logVars, raceVars>>
pageOthers == <<nbVars, cellVars, waitVars, wait2Vars, listVars, treeVars, textVars, logVars, raceVars>>
listOthers == <<nbVars, cellVars, waitVars, wait2Vars, pageVars, treeVars, textVars, logVars, raceVars>>
treeOthers == <<nbVars, cellVars, waitVars, wait2Vars, pageVars, listVars, textVars, logVars, raceVars>>
textOthers == <<nbVars, cellVars, waitVars, wait2Vars, pageVars, listVars, treeVars, logVars, raceVars>>
logOthers == <<nbVars, cellVars, waitVars, wait2Vars, pageVars, listVars, treeVars, textVars, raceVars>>
raceOthers == <<nbVars, cellVars, waitVars, wait2Vars, pageVars, listVars, treeVars, textVars, logVars>>

\* the parts of the state a specification does not use
NotebookOff ==
    /\ notebook = <<>> /\ phase = "off" /\ view = <<>>
    /\ request = [tool |-> "none"] /\ response = <<>>
    /\ calls = <<>> /\ before = <<>>

CellsOff == input = <<>> /\ output = <<>> /\ pc = "off"

WaitOff == run = <<>> /\ waiter = [pc |-> "off"] /\ cancel = <<>>

Wait2Off == runs = <<>> /\ waiters = <<>>

PagesOff == collection = <<>> /\ pager = [phase |-> "off"]

ListsOff == listed = <<>> /\ lister = [phase |-> "off"]

TreeOff == tree = <<>> /\ fetcher = [phase |-> "off"]

TextOff == payload = <<>> /\ reply = <<>> /\ stage = "off"

LogsOff == logstore = <<>> /\ reader = [phase |-> "off"]

RaceOff == shared = <<>> /\ updaters = <<>>

----------------------------------------------------------------------------
(* Bounded inputs                                                          *)

SeparatorLine == CELL_SEPARATOR

Lines == {<<"a">>, <<>>, SeparatorLine}

\* "a\n# COMMAND ----------\nb\n# COMMAND ----------\nc"
ScenarioDoc ==
    Join(<<NL>>, <<(<<"a">>), CELL_SEPARATOR, (<<"b">>), CELL_SEPARATOR, (<<"c">>)>>)

Docs == {Join(<<NL>>, ls) : ls \in SeqsOf(Lines, 1, MaxLines)} \cup {ScenarioDoc}

\* a line of code quoting the separator, and the two tokens on separate lines
QuotedSeparator == <<"x", "=">> \o CELL_SEPARATOR
SplitTokens == Dashes \o <<NL>> \o HashCommand

\* valid and invalid new content a caller passes
ValidContents == {<<"B">>, <<>>}
NewContents == ValidContents \cup {QuotedSeparator, SplitTokens}

\* cell indices a caller passes: negative, and inside or beyond the cell
\* range of the documents (which have 0 to 3 cells)
Indices == {-1, 0, 1, 2}

Edits == [index : Indices, content : ValidContents \cup {QuotedSeparator}]

SingleArgs == [cell_index : Indices, new_content : NewContents]
BatchArgs == [updates : SeqsOf(Edits, 0, MaxBatch)]
\* calls that break the input-mode rule
BothArgs == [cell_index : {0}, new_content : {<<"B">>}, updates : SeqsOf(Edits, 0, 1)]
            \cup [cell_index : {0}, updates : SeqsOf(Edits, 0, 1)]
NeitherArgs == {<<>>} \cup [new_content : NewContents]
NoContentArgs == [cell_index : Indices]

UpdateArgs == SingleArgs \cup BatchArgs \cup BothArgs \cup NeitherArgs
              \cup NoContentArgs

\* a caller that holds a view passes one of its cells back as new content
FeedBackArgs == [cell_index : Indices,
                 new_content : {view.cells[i] : i \in DOMAIN view.cells}]

ReadArgs == {<<>>} \cup [cell_offset : 0..1] \cup [cell_limit : 0..1]
            \cup [cell_offset : 0..1, cell_limit : 0..1]

----------------------------------------------------------------------------
(* Actions                                                                 *)

NoCall == [tool |-> "none"]

Init ==
    /\ notebook \in Docs
    /\ phase = "idle"
    /\ view = <<>>
    /\ request = NoCall
    /\ response = <<>>
    /\ calls = <<>>
    /\ before = notebook
    /\ CellsOff
    /\ WaitOff
    /\ Wait2Off
    /\ PagesOff
    /\ ListsOff
    /\ TreeOff
    /\ TextOff
    /\ LogsOff
    /\ RaceOff

\* call_tool("databricks_read_notebook", args): one export, no write
ReadNotebook(args) ==
    /\ phase = "idle"
    /\ phase' = "viewed"
    /\ request' = [tool |-> "databricks_read_notebook", args |-> args]
    /\ response' = read_notebook(notebook, args)
    /\ view' = response'
    /\ calls' = <<ExportCall>>
    /\ before' = notebook
    /\ UNCHANGED <<notebook, nbOthers>>

\* call_tool("databricks_update_notebook_cell", args)
UpdateNotebookCell(args) ==
    /\ phase \in {"idle", "viewed"}
    /\ phase' = "done"
    /\ LET r == update_notebook_cell(notebook, args)
       IN  /\ response' = r.result
           /\ calls' = r.calls
           /\ notebook' = r.upstream
    /\ request' = [tool |-> "databricks_update_notebook_cell", args |-> args]
    /\ before' = notebook
    /\ UNCHANGED <<view, nbOthers>>

Next ==
    \/ phase = "idle" /\ \E args \in ReadArgs : ReadNotebook(args)
    \/ phase = "idle" /\ \E args \in UpdateArgs : UpdateNotebookCell(args)
    \/ phase = "viewed" /\ \E args \in FeedBackArgs : UpdateNotebookCell(args)

Spec == Init /\ [][Next]_vars

----------------------------------------------------------------------------
(* The cell functions on their own                                         *)

\* most cells of an input cell list, most lines of an input text
MaxCells == 2
MaxTextLines == 3

\* an indented separator line with trailing text: strip().startswith matches
LooseSeparatorLine == <<" ">> \o CELL_SEPARATOR \o <<"x">>

CellTexts == {<<"a">>, <<>>, <<"a", NL, "b">>, QuotedSeparator, CELL_SEPARATOR}
CellLists == SeqsOf(CellTexts, 0, MaxCells)

TextLines == {<<"a">>, <<>>, <<" ">>, SeparatorLine, LooseSeparatorLine,
              QuotedSeparator}
Texts == {Join(<<NL>>, ls) : ls \in SeqsOf(TextLines, 1, MaxTextLines)}

InitCells ==
    /\ input \in [kind : {"cells"}, value : CellLists]
                 \cup [kind : {"text"}, value : Texts]
    /\ output = <<>>
    /\ pc = "start"
    /\ NotebookOff
    /\ WaitOff
    /\ Wait2Off
    /\ PagesOff
    /\ ListsOff
    /\ TreeOff
    /\ TextOff
    /\ LogsOff
    /\ RaceOff

\* _reconstruct_notebook(cells)
Reconstruct ==
    /\ pc = "start" /\ input.kind = "cells"
    /\ output' = _reconstruct_notebook(input.value)
    /\ pc' = "reconstructed"
    /\ UNCHANGED <<input, cellOthers>>

\* _parse_notebook_cells applied to the reconstructed text
ParseReconstructed ==
    /\ pc = "reconstructed"
    /\ output' = _parse_notebook_cells(output)
    /\ pc' = "parsed"
    /\ UNCHANGED <<input, cellOthers>>

\* _parse_notebook_cells(content)
ParseText ==
    /\ pc = "start" /\ input.kind = "text"
    /\ output' = _parse_notebook_cells(input.value)
    /\ pc' = "parsedText"
    /\ UNCHANGED <<input, cellOthers>>

NextCells == Reconstruct \/ ParseReconstructed \/ ParseText

SpecCells == InitCells /\ [][NextCells]_vars

----------------------------------------------------------------------------
(* wait_for_run                                                            *)

\* largest timeout_minutes a caller passes
MaxTimeoutMinutes == 1

TimeoutMinutes == 0..MaxTimeoutMinutes
PollIntervals == {7, 10, 30, 60, 90}

\* RunLifeCycleState values the run goes through
LifeCycleStates ==
    {"PENDING", "RUNNING", "TERMINATING", "TERMINATED", "SKIPPED", "INTERNAL_ERROR"}

terminal_states == {"TERMINATED", "SKIPPED", "INTERNAL_ERROR"}

\* the upstream run moves on; a terminal state is never left
RunSuccessors(state) ==
    CASE state = "PENDING" -> {"RUNNING", "SKIPPED", "INTERNAL_ERROR"}
      [] state = "RUNNING" -> {"TERMINATING", "INTERNAL_ERROR"}
      [] state = "TERMINATING" -> {"TERMINATED", "INTERNAL_ERROR"}
      [] OTHER -> {}

\* the result_state the upstream reports with a life cycle state
ResultStates(state) ==
    IF state = "TERMINATED" THEN {"SUCCESS", "FAILED"}
    ELSE IF state = "INTERNAL_ERROR" THEN {"FAILED"}
    ELSE {"NONE"}

NewRun == [life_cycle_state |-> "PENDING", result_state |-> "NONE"]

\* what the upstream does to a run when it serves the calls ops: a cancel
\* request moves a run that is still going to TERMINATING, reads change
\* nothing
UpstreamAfter(r, ops) ==
    IF /\ \E i \in DOMAIN ops : ops[i] = "jobs.cancel_run"
       /\ r.life_cycle_state \in {"PENDING", "RUNNING"}
    THEN [r EXCEPT !.life_cycle_state = "TERMINATING"]
    ELSE r

\* max_iterations = (timeout_minutes * 60) // poll_interval
max_iterations_of(timeout_minutes, poll_interval) ==
    (timeout_minutes * 60) \div poll_interval

\* variant: the loop runs once more
LoopConditionInclusive(iteration, max_iterations) == iteration <= max_iterations

\* while iteration < max_iterations
LoopCondition(iteration, max_iterations) == iteration < max_iterations

\* get_run_output: the run and its output are fetched (two more upstream
\* calls) and the state of the run is reported
get_run_output(current) ==
    [state |-> current.life_cycle_state,
     result_state |-> current.result_state,
     fetched |-> <<"jobs.get_run", "jobs.get_run_output">>]

TimeoutResult(timeout_minutes) ==
    [status |-> "TIMEOUT", timeout_minutes |-> timeout_minutes]

\* cancel_run: one upstream cancel request, then the result dict
cancel_run ==
    [calls |-> <<"jobs.cancel_run">>, result |-> [status |-> "cancelled"]]

\* The steps of one wait_for_run call w against the run r it reads.  seen is
\* the list of life cycle states its polls observed and calls the list of
\* the upstream operations it invoked.

\* the code up to the loop
StartWaitStep(timeout_minutes, poll_interval) ==
    [pc |-> "loop",
     timeout_minutes |-> timeout_minutes,
     poll_interval |-> poll_interval,
     max_iterations |-> max_iterations_of(timeout_minutes, poll_interval),
     iteration |-> 0,
     polls |-> 0,
     sleeps |-> 0,
     seen |-> <<>>,
     calls |-> <<>>,
     failures |-> <<>>]

CanPoll(w) ==
    w.pc = "loop" /\ LoopCondition(w.iteration, w.max_iterations)

\* variant: a run that is still RUNNING is taken for finished
IsTerminalOrRunning(state) == state \in terminal_states \cup {"RUNNING"}

\* state.life_cycle_state in terminal_states
IsTerminal(state) == state \in terminal_states

\* client.jobs.get_run, then either on to get_run_output or iteration += 1
\* and the sleep
PollStep(w, r) ==
    LET polled == [w EXCEPT !.polls = @ + 1,
                            !.seen = Append(@, r.life_cycle_state),
                            !.calls = Append(@, "jobs.get_run")]
    IN  IF IsTerminal(r.life_cycle_state)
        THEN [polled EXCEPT !.pc = "fetching"]
        ELSE [polled EXCEPT !.pc = "sleeping", !.iteration = @ + 1]

\* output_result = await get_run_output(...); return output_result
FetchStep(w, r) ==
    LET output_result == get_run_output(r)
    IN  [w EXCEPT !.pc = "done", !.calls = @ \o output_result.fetched]
        @@ [result |-> output_result]

\* the failures an upstream call raises: the exception type and its message
DatabricksError ==
    <<"D", "a", "t", "a", "b", "r", "i", "c", "k", "s",
      "E", "r", "r", "o", "r">>
UpstreamFailures ==
    [kind : {"exception"}, type : {DatabricksError},
     text : {<<"5", "0", "3">>, <<"4", "0", "4">>}]

\* the response call_tool makes of an exception e raised under it
ErrorResponse(e) == [error |-> databricks_call_tool(e)]

\* variant: a poll that raised is taken for a run that is still going
PollFailStepSwallowed(w, e) ==
    [w EXCEPT !.pc = "sleeping", !.iteration = @ + 1, !.polls = @ + 1,
              !.calls = Append(@, "jobs.get_run"),
              !.failures = Append(@, e)]

\* client.jobs.get_run raises e in the loop: wait_for_run has no handler, so
\* the loop is left and call_tool returns the error text
PollFailStep(w, e) ==
    [w EXCEPT !.pc = "failed", !.polls = @ + 1,
              !.calls = Append(@, "jobs.get_run"),
              !.failures = Append(@, e)]
    @@ [result |-> ErrorResponse(e)]

\* the first upstream call of get_run_output raises e after the loop saw a
\* terminal state
FetchFailStep(w, e) ==
    [w EXCEPT !.pc = "failed",
              !.calls = Append(@, "jobs.get_run"),
              !.failures = Append(@, e)]
    @@ [result |-> ErrorResponse(e)]

\* asyncio.sleep(poll_interval) returns
WakeStep(w) == [w EXCEPT !.pc = "loop", !.sleeps = @ + 1]

CanTimeOut(w) ==
    w.pc = "loop" /\ ~LoopCondition(w.iteration, w.max_iterations)

\* variant: the run is cancelled when the wait gives up
TimeOutStepCancelling(w) ==
    [w EXCEPT !.pc = "done", !.calls = Append(@, "jobs.cancel_run")]
    @@ [result |-> TimeoutResult(w.timeout_minutes)]

\* the loop condition fails: the TIMEOUT dict is returned
TimeOutStep(w) ==
    [w EXCEPT !.pc = "done"] @@ [result |-> TimeoutResult(w.timeout_minutes)]

\* the upstream operations a step added to the log of a call
NewCalls(w, w2) == SubSeq(w2.calls, Len(w.calls) + 1, Len(w2.calls))

InitWait ==
    /\ run = NewRun
    /\ waiter = [pc |-> "idle"]
    /\ cancel = <<>>
    /\ NotebookOff
    /\ CellsOff
    /\ Wait2Off
    /\ PagesOff
    /\ ListsOff
    /\ TreeOff
    /\ TextOff
    /\ LogsOff
    /\ RaceOff

\* call_tool("databricks_wait_for_run", args): the code up to the loop
StartWait(timeout_minutes, poll_interval) ==
    /\ waiter.pc = "idle"
    /\ waiter' = StartWaitStep(timeout_minutes, poll_interval)
                     @@ [at_call |-> run.life_cycle_state]
    /\ UNCHANGED <<run, cancel, waitOthers>>

\* one pass of the loop body up to the next await
Poll ==
    /\ CanPoll(waiter)
    /\ waiter' = PollStep(waiter, run)
    /\ run' = UpstreamAfter(run, NewCalls(waiter, waiter'))
    /\ UNCHANGED <<cancel, waitOthers>>

\* the poll saw a terminal state: the output is fetched and returned
FetchOutput ==
    /\ waiter.pc = "fetching"
    /\ waiter' = FetchStep(waiter, run)
    /\ run' = UpstreamAfter(run, NewCalls(waiter, waiter'))
    /\ UNCHANGED <<cancel, waitOthers>>

\* the status poll of the loop fails upstream
PollFails(e) ==
    /\ CanPoll(waiter)
    /\ waiter' = PollFailStep(waiter, e)
    /\ UNCHANGED <<run, cancel, waitOthers>>

\* the fetch of the output fails upstream
FetchFails(e) ==
    /\ waiter.pc = "fetching"
    /\ waiter' = FetchFailStep(waiter, e)
    /\ UNCHANGED <<run, cancel, waitOthers>>

Wake ==
    /\ waiter.pc = "sleeping"
    /\ waiter' = WakeStep(waiter)
    /\ UNCHANGED <<run, cancel, waitOthers>>

TimeOut ==
    /\ CanTimeOut(waiter)
    /\ waiter' = TimeOutStep(waiter)
    /\ run' = UpstreamAfter(run, NewCalls(waiter, waiter'))
    /\ UNCHANGED <<cancel, waitOthers>>

\* call_tool("databricks_cancel_run", args), made by the caller itself
CancelRun ==
    /\ cancel = <<>>
    /\ run.life_cycle_state \in {"PENDING", "RUNNING"}
    /\ cancel' = cancel_run.result
    /\ run' = UpstreamAfter(run, cancel_run.calls)
    /\ UNCHANGED <<waiter, waitOthers>>

\* the run changes state upstream while the call waits
RunProgress ==
    /\ waiter.pc \in {"idle", "loop", "sleeping", "fetching", "done", "failed"}
    /\ \E next \in RunSuccessors(run.life_cycle_state) :
       \E result_state \in ResultStates(next) :
           run' = [life_cycle_state |-> next, result_state |-> result_state]
    /\ UNCHANGED <<waiter, cancel, waitOthers>>

NextWait ==
    \/ \E t \in TimeoutMinutes, p \in PollIntervals : StartWait(t, p)
    \/ Poll
    \/ FetchOutput
    \/ \E e \in UpstreamFailures : PollFails(e)
    \/ \E e \in UpstreamFailures : FetchFails(e)
    \/ Wake
    \/ TimeOut
    \/ CancelRun
    \/ RunProgress

SpecWait == InitWait /\ [][NextWait]_vars

----------------------------------------------------------------------------
(* Two wait_for_run calls in flight                                        *)

WaitCalls == {1, 2}
RunIds == {1, 2}
\* poll intervals a call passes: call 1 a minute, call 2 half or a whole one
PollIntervals2(c) == IF c = 1 THEN {60} ELSE {30, 60}
TimeoutMinutes2 == {MaxTimeoutMinutes}

\* the run a call may name: call 1 waits for run 1, call 2 for either run
RunIdsOf(c) == IF c = 1 THEN {1} ELSE RunIds

OtherCall(c) == IF c = 1 THEN 2 ELSE 1

InFlight(w) == w.pc \in {"loop", "sleeping", "fetching"}

\* variant: iteration is one counter of the module, which every call in the
\* loop reads and writes
StepOfSharedCounter(ws, c, w2) ==
    [d \in DOMAIN ws |->
        IF d = c THEN w2
        ELSE IF InFlight(ws[d]) /\ "iteration" \in DOMAIN w2
             THEN [ws[d] EXCEPT !.iteration = w2.iteration]
             ELSE ws[d]]

\* the call c moves on to w2: run_id, timeout_minutes, poll_interval,
\* max_iterations and iteration are locals of the coroutine of the call
StepOf(ws, c, w2) == [ws EXCEPT ![c] = w2]

InitWait2 ==
    /\ runs = [id \in RunIds |-> NewRun]
    /\ waiters = [c \in WaitCalls |-> [pc |-> "idle"]]
    /\ NotebookOff
    /\ CellsOff
    /\ WaitOff
    /\ PagesOff
    /\ ListsOff
    /\ TreeOff
    /\ TextOff
    /\ LogsOff
    /\ RaceOff

\* call c arrives; concurrent records whether the other call was in flight
StartWait2(c, run_id, timeout_minutes, poll_interval) ==
    /\ waiters[c].pc = "idle"
    /\ waiters' = StepOf(waiters, c,
                     StartWaitStep(timeout_minutes, poll_interval)
                     @@ [run_id |-> run_id,
                         concurrent |-> InFlight(waiters[OtherCall(c)])])
    /\ UNCHANGED <<runs, wait2Others>>

Poll2(c) ==
    /\ CanPoll(waiters[c])
    /\ LET id == waiters[c].run_id
           w2 == PollStep(waiters[c], runs[id])
       IN  /\ waiters' = StepOf(waiters, c, w2)
           /\ runs' = [runs EXCEPT ![id] = UpstreamAfter(@, NewCalls(waiters[c], w2))]
    /\ UNCHANGED wait2Others

FetchOutput2(c) ==
    /\ waiters[c].pc = "fetching"
    /\ LET id == waiters[c].run_id
           w2 == FetchStep(waiters[c], runs[id])
       IN  /\ waiters' = StepOf(waiters, c, w2)
           /\ runs' = [runs EXCEPT ![id] = UpstreamAfter(@, NewCalls(waiters[c], w2))]
    /\ UNCHANGED wait2Others

Wake2(c) ==
    /\ waiters[c].pc = "sleeping"
    /\ waiters' = StepOf(waiters, c, WakeStep(waiters[c]))
    /\ UNCHANGED <<runs, wait2Others>>

TimeOut2(c) ==
    /\ CanTimeOut(waiters[c])
    /\ LET id == waiters[c].run_id
           w2 == TimeOutStep(waiters[c])
       IN  /\ waiters' = StepOf(waiters, c, w2)
           /\ runs' = [runs EXCEPT ![id] = UpstreamAfter(@, NewCalls(waiters[c], w2))]
    /\ UNCHANGED wait2Others

\* a run changes state upstream
RunProgress2(id) ==
    /\ \E next \in RunSuccessors(runs[id].life_cycle_state) :
       \E result_state \in ResultStates(next) :
           runs' = [runs EXCEPT ![id] = [life_cycle_state |-> next,
                                         result_state |-> result_state]]
    /\ UNCHANGED <<waiters, wait2Others>>

NextWait2 ==
    \/ \E c \in WaitCalls, t \in TimeoutMinutes2 : \E p \in PollIntervals2(c) :
       \E id \in RunIdsOf(c) : StartWait2(c, id, t, p)
    \/ \E c \in WaitCalls : Poll2(c)
    \/ \E c \in WaitCalls : FetchOutput2(c)
    \/ \E c \in WaitCalls : Wake2(c)
    \/ \E c \in WaitCalls : TimeOut2(c)
    \/ \E id \in RunIds : RunProgress2(id)

SpecWait2 == InitWait2 /\ [][NextWait2]_vars

----------------------------------------------------------------------------
(* Reading a collection window by window                                   *)

\* what client.workspace.list yields for a directory of n objects
WorkspaceItem(i) ==
    CASE i = 1 -> [path |-> 1, object_type |-> "NOTEBOOK", language |-> "PYTHON"]
      [] i = 2 -> [path |-> 2, object_type |-> "DIRECTORY", language |-> None]
      [] OTHER -> [path |-> i, object_type |-> None, language |-> None]

Workspace(n) == [i \in 1..n |-> WorkspaceItem(i)]

\* a notebook of two cells, the first longer than the per-cell budget
LongCell == [i \in 1..(MAX_CELL_CONTENT + 1) |-> "a"]
LongCellDoc == Join(<<NL>>, <<LongCell, CELL_SEPARATOR, (<<"b">>)>>)

PageDocs == {ScenarioDoc, LongCellDoc, <<"a">>, <<>>}

PageTools == {"databricks_list_notebooks", "databricks_read_notebook"}

LimitKey(tool) ==
    IF tool = "databricks_list_notebooks" THEN "limit" ELSE "cell_limit"
OffsetKey(tool) ==
    IF tool = "databricks_list_notebooks" THEN "offset" ELSE "cell_offset"
ItemsKey(tool) ==
    IF tool = "databricks_list_notebooks" THEN "items" ELSE "cells"

Offsets == (-1)..(MaxItems + 1)
Limits == (-1)..(MaxItems + 1)

OffsetArg(tool, offset) == [k \in {OffsetKey(tool)} |-> offset]
LimitArg(tool, limit) == [k \in {LimitKey(tool)} |-> limit]

\* the arguments of a call: offset and limit may each be left out
PageArgs(tool) ==
    {o @@ l : o \in {<<>>} \cup {OffsetArg(tool, n) : n \in Offsets},
              l \in {<<>>} \cup {LimitArg(tool, n) : n \in Limits}}

\* the limit of a caller that goes through the whole collection
WalkLimits(tool) ==
    {<<>>} \cup {LimitArg(tool, n) : n \in 1..(MaxItems + 1)}

\* call_tool(tool, args) against the collection
PageCall(tool, upstream, args) ==
    IF tool = "databricks_list_notebooks"
    THEN list_notebooks(upstream, args)
    ELSE read_notebook(upstream, args)

InitPages ==
    /\ \E tool \in PageTools :
          /\ pager = [phase |-> "idle", tool |-> tool]
          /\ collection \in
                (IF tool = "databricks_list_notebooks"
                 THEN {Workspace(n) : n \in 0..MaxItems}
                 ELSE PageDocs)
    /\ NotebookOff
    /\ CellsOff
    /\ WaitOff
    /\ Wait2Off
    /\ ListsOff
    /\ TreeOff
    /\ TextOff
    /\ LogsOff
    /\ RaceOff

\* one call with any offset and limit
Probe(args) ==
    /\ pager.phase = "idle"
    /\ LET result == PageCall(pager.tool, collection, args)
       IN  pager' = [phase |-> "probed", tool |-> pager.tool,
                     limit |-> <<>>, args |-> args, result |-> result,
                     windows |-> result[ItemsKey(pager.tool)], steps |-> 1]
    /\ UNCHANGED <<collection, pageOthers>>

\* the first call of a caller that goes through the whole collection
StartWalk(limit) ==
    /\ pager.phase = "idle"
    /\ LET args == OffsetArg(pager.tool, 0) @@ limit
           result == PageCall(pager.tool, collection, args)
       IN  pager' = [phase |-> IF "has_more" \in DOMAIN result
                               THEN "walking" ELSE "walked",
                     tool |-> pager.tool,
                     limit |-> limit, args |-> args, result |-> result,
                     windows |-> result[ItemsKey(pager.tool)], steps |-> 1]
    /\ UNCHANGED <<collection, pageOthers>>

\* the next call, with the next_offset the last result gave
WalkOn ==
    /\ pager.phase = "walking"
    /\ LET args == OffsetArg(pager.tool, pager.result.next_offset) @@ pager.limit
           result == PageCall(pager.tool, collection, args)
       IN  pager' = [pager EXCEPT
                       !.phase = IF "has_more" \in DOMAIN result
                                 THEN "walking" ELSE "walked",
                       !.args = args,
                       !.result = result,
                       !.windows = @ \o result[ItemsKey(pager.tool)],
                       !.steps = @ + 1]
    /\ UNCHANGED <<collection, pageOthers>>

NextPages ==
    \/ pager.phase = "idle" /\ \E args \in PageArgs(pager.tool) : Probe(args)
    \/ pager.phase = "idle" /\ \E limit \in WalkLimits(pager.tool) : StartWalk(limit)
    \/ WalkOn

SpecPages == InitPages /\ [][NextPages]_vars

----------------------------------------------------------------------------
(* One call of a list tool                                                 *)

ListTools == {"databricks_list_notebooks", "databricks_list_clusters",
              "notion_query_data_source", "notion_search", "notion_list_users"}

\* what client.clusters.list yields: clusters in any of these states
ClusterStates == {"RUNNING", "TERMINATED", None}
ClusterLists ==
    {[i \in DOMAIN states |-> [cluster_id |-> i, state |-> states[i]]] :
        states \in SeqsOf(ClusterStates, 0, MaxItems)}

\* the pages, objects or users a Notion list endpoint holds
NotionItem(i) == [id |-> i, object |-> IF i = 1 THEN "page" ELSE "database"]
NotionLists == {[i \in 1..n |-> NotionItem(i)] : n \in 0..MaxItems}

ListedBy(tool) ==
    CASE tool = "databricks_list_notebooks" -> {Workspace(n) : n \in 0..MaxItems}
      [] tool = "databricks_list_clusters" -> ClusterLists
      [] OTHER -> NotionLists

ClusterArgs ==
    {f @@ l : f \in {<<>>} \cup [filter_by : {"all", "running", "terminated"}],
              l \in {<<>>} \cup [limit : 0..(MaxItems + 1)]}

NotionArgs ==
    {q @@ c : q \in {<<>>} \cup [page_size : 1..(MaxItems + 1)],
              c \in {<<>>, [start_cursor |-> CursorAt(1)]}}

InitLists ==
    /\ \E tool \in ListTools :
          /\ lister = [phase |-> "idle", tool |-> tool]
          /\ listed \in ListedBy(tool)
    /\ NotebookOff
    /\ CellsOff
    /\ WaitOff
    /\ Wait2Off
    /\ PagesOff
    /\ TreeOff
    /\ TextOff
    /\ LogsOff
    /\ RaceOff

\* the call is answered: its arguments, what it sent upstream, its result
Answered(tool, args, sent, result) ==
    [phase |-> "done", tool |-> tool, args |-> args, sent |-> sent,
     result |-> result]

ListNotebooks(args) ==
    /\ lister.phase = "idle" /\ lister.tool = "databricks_list_notebooks"
    /\ lister' = Answered(lister.tool, args, <<>>, list_notebooks(listed, args))
    /\ UNCHANGED <<listed, listOthers>>

ListClusters(args) ==
    /\ lister.phase = "idle" /\ lister.tool = "databricks_list_clusters"
    /\ lister' = Answered(lister.tool, args, <<>>, list_clusters(listed, args))
    /\ UNCHANGED <<listed, listOthers>>

QueryDataSource(args) ==
    /\ lister.phase = "idle" /\ lister.tool = "notion_query_data_source"
    /\ LET r == query_data_source(listed, args)
       IN  lister' = Answered(lister.tool, args, r.sent, r.result)
    /\ UNCHANGED <<listed, listOthers>>

Search(args) ==
    /\ lister.phase = "idle" /\ lister.tool = "notion_search"
    /\ LET r == search(listed, [query |-> "q"] @@ args)
       IN  lister' = Answered(lister.tool, args, r.sent, r.result)
    /\ UNCHANGED <<listed, listOthers>>

ListUsers(args) ==
    /\ lister.phase = "idle" /\ lister.tool = "notion_list_users"
    /\ LET r == list_users(listed, args)
       IN  lister' = Answered(lister.tool, args, r.sent, r.result)
    /\ UNCHANGED <<listed, listOthers>>

NextLists ==
    \/ \E args \in PageArgs("databricks_list_notebooks") : ListNotebooks(args)
    \/ \E args \in ClusterArgs : ListClusters(args)
    \/ \E args \in NotionArgs : QueryDataSource(args)
    \/ \E args \in NotionArgs : Search(args)
    \/ \E args \in NotionArgs : ListUsers(args)

SpecLists == InitLists /\ [][NextLists]_vars

----------------------------------------------------------------------------
(* One get_page_content call                                              *)

Widths == 0..MaxWidth
Shapes == [width : Widths, parents : SUBSET (1..2), depth : 1..MaxDepth]

\* the blocks whose children request the upstream answers with an error:
\* none, the page itself, a block of the first level, one of the second
BrokenSets == {{}, {<<>>}, {<<2>>}, {<<2, 1>>}}

\* the page the caller names, or one of its blocks
PageIds == {<<>>, <<2>>}

ContentArgs ==
    {[page_id |-> id] @@ f @@ q @@ c :
        id \in PageIds,
        f \in {<<>>} \cup [fetch_all : BOOLEAN],
        q \in {<<>>} \cup [page_size : {1, MaxWidth}],
        c \in {<<>>, [start_cursor |-> CursorAt(1)]}}

InitTree ==
    /\ tree \in [shape : Shapes, broken : BrokenSets]
    /\ fetcher = [phase |-> "idle"]
    /\ NotebookOff
    /\ CellsOff
    /\ WaitOff
    /\ Wait2Off
    /\ PagesOff
    /\ ListsOff
    /\ TextOff
    /\ LogsOff
    /\ RaceOff

\* call_tool("notion_get_page_content", args)
GetPageContent(args) ==
    /\ fetcher.phase = "idle"
    /\ LET r == get_page_content(tree, args)
       IN  fetcher' = [phase |-> "done", args |-> args, log |-> r.log,
                       result |-> r.result]
    /\ UNCHANGED <<tree, treeOthers>>

NextTree == fetcher.phase = "idle" /\ \E args \in ContentArgs : GetPageContent(args)

SpecTree == InitTree /\ [][NextTree]_vars

----------------------------------------------------------------------------
(* truncate_text and call_tool on their own                                *)

\* longest text handed to truncate_text
MaxTextLen == 3

TruncTexts == SeqsOf({"a", "b"}, 0, MaxTextLen)
Fields == [is_none : {FALSE}, text : TruncTexts]
              \cup {[is_none |-> TRUE, text |-> <<>>]}
Budgets == 0..(MaxTextLen + 1)
FieldNames == {"logs", "error_trace"}

\* a text of n characters
Filler(n) == [i \in 1..n |-> "x"]

\* a length no budget of a response allows
OverBudget == MAX_TEXT_SIZE + 60
ResponseLengths == {0, MAX_TEXT_SIZE, MAX_TEXT_SIZE + 1, OverBudget}
ExceptionTypes == {<<"K", "e", "y", "E", "r", "r", "o", "r">>}
StatusCodes == {404, 500}

Results == [kind : {"result"}, text : {Filler(n) : n \in ResponseLengths}]
Exceptions == [kind : {"exception"}, type : ExceptionTypes,
               text : {Filler(n) : n \in ResponseLengths}]
HttpErrors == [kind : {"http_error"}, status : StatusCodes,
               text : {Filler(n) : n \in ResponseLengths}]

TruncateCalls ==
    [call : {"truncate_text"}, server : {"databricks"}, field : Fields,
     max_size : Budgets, field_name : FieldNames]
    \cup [call : {"truncate_text"}, server : {"notion"}, field : Fields,
          max_size : Budgets, field_name : {"text"}]

ToolCalls ==
    [call : {"call_tool"}, server : {"databricks"},
     outcome : Results \cup Exceptions]
    \cup [call : {"call_tool"}, server : {"notion"},
          outcome : Results \cup HttpErrors \cup Exceptions]

InitText ==
    /\ payload \in TruncateCalls \cup ToolCalls
    /\ reply = <<>>
    /\ stage = "start"
    /\ NotebookOff
    /\ CellsOff
    /\ WaitOff
    /\ Wait2Off
    /\ PagesOff
    /\ ListsOff
    /\ TreeOff
    /\ LogsOff
    /\ RaceOff

\* the Databricks server's truncate_text(text, max_size, field_name)
TruncateText ==
    /\ stage = "start" /\ payload.call = "truncate_text"
    /\ payload.server = "databricks"
    /\ reply' = truncate_field(payload.field, payload.max_size,
                               payload.field_name)
    /\ stage' = "truncated"
    /\ UNCHANGED <<payload, textOthers>>

\* the Notion server's truncate_text(text, max_size)
NotionTruncateText ==
    /\ stage = "start" /\ payload.call = "truncate_text"
    /\ payload.server = "notion"
    /\ reply' = notion_truncate_field(payload.field, payload.max_size)
    /\ stage' = "truncated"
    /\ UNCHANGED <<payload, textOthers>>

\* the Databricks server's call_tool, once its handler returned or raised
DatabricksCallTool ==
    /\ stage = "start" /\ payload.call = "call_tool"
    /\ payload.server = "databricks"
    /\ reply' = databricks_call_tool(payload.outcome)
    /\ stage' = "replied"
    /\ UNCHANGED <<payload, textOthers>>

\* the Notion server's call_tool, once its handler returned or raised
NotionCallTool ==
    /\ stage = "start" /\ payload.call = "call_tool"
    /\ payload.server = "notion"
    /\ reply' = notion_call_tool(payload.outcome)
    /\ stage' = "replied"
    /\ UNCHANGED <<payload, textOthers>>

NextText ==
    \/ TruncateText
    \/ NotionTruncateText
    \/ DatabricksCallTool
    \/ NotionCallTool

SpecText == InitText /\ [][NextText]_vars

----------------------------------------------------------------------------
(* Reading the logs of a run chunk by chunk                                *)

\* longest upstream log
MaxLogLen == 4

\* a log of n characters, each different from the others
LogText(n) == [i \in 1..n |-> Digit(i % 10)]

RunOutputs ==
    [has_logs : {TRUE}, logs : {LogText(n) : n \in 0..MaxLogLen},
     logs_truncated : BOOLEAN]
    \cup {[has_logs |-> FALSE, logs |-> <<>>, logs_truncated |-> FALSE]}

LogOffsets == (-1)..(MaxLogLen + 1)
LogSizes == (-1)..(MaxLogLen + 1)

\* the arguments of a call: offset and max_size may each be left out
LogArgs ==
    {o @@ m : o \in {<<>>} \cup {[offset |-> n] : n \in LogOffsets},
              m \in {<<>>} \cup {[max_size |-> n] : n \in LogSizes}}

\* the max_size of a caller that reads the whole log
WalkSizes == {<<>>} \cup {[max_size |-> n] : n \in 1..(MaxLogLen + 1)}

\* the part of the logs field that is log text: the note appended to a
\* chunk that was cut is taken off
ChunkOf(result, args) ==
    IF result.logs_truncated_by_limit
    THEN Take(result.logs,
              Len(result.logs)
                - Len(LogTruncationNote(Get(args, "max_size", MAX_LOG_SIZE),
                                        result.logs_offset,
                                        result.logs_total_size)))
    ELSE result.logs

InitLogs ==
    /\ logstore \in RunOutputs
    /\ reader = [phase |-> "idle"]
    /\ NotebookOff
    /\ CellsOff
    /\ WaitOff
    /\ Wait2Off
    /\ PagesOff
    /\ ListsOff
    /\ TreeOff
    /\ TextOff
    /\ RaceOff

\* one get_run_logs call with any offset and max_size
ProbeLogs(args) ==
    /\ reader.phase = "idle"
    /\ LET result == get_run_logs(logstore, args)
       IN  reader' = [phase |-> "probed", max_size |-> <<>>, args |-> args,
                      result |-> result,
                      chunks |-> <<ChunkOf(result, args)>>, steps |-> 1]
    /\ UNCHANGED <<logstore, logOthers>>

\* the first call of a caller that reads the whole log
StartLogWalk(max_size) ==
    /\ reader.phase = "idle"
    /\ LET args == [offset |-> 0] @@ max_size
           result == get_run_logs(logstore, args)
       IN  reader' = [phase |-> IF result.logs_truncated_by_limit
                                THEN "walking" ELSE "walked",
                      max_size |-> max_size, args |-> args,
                      result |-> result,
                      chunks |-> <<ChunkOf(result, args)>>, steps |-> 1]
    /\ UNCHANGED <<logstore, logOthers>>

\* the next call, with the next_offset the last result gave
LogWalkOn ==
    /\ reader.phase = "walking"
    /\ LET args == [offset |-> reader.result.next_offset] @@ reader.max_size
           result == get_run_logs(logstore, args)
       IN  reader' = [reader EXCEPT
                        !.phase = IF result.logs_truncated_by_limit
                                  THEN "walking" ELSE "walked",
                        !.args = args,
                        !.result = result,
                        !.chunks = Append(@, ChunkOf(result, args)),
                        !.steps = @ + 1]
    /\ UNCHANGED <<logstore, logOthers>>

NextLogs ==
    \/ reader.phase = "idle" /\ \E args \in LogArgs : ProbeLogs(args)
    \/ reader.phase = "idle" /\ \E max_size \in WalkSizes : StartLogWalk(max_size)
    \/ LogWalkOn

SpecLogs == InitLogs /\ [][NextLogs]_vars

----------------------------------------------------------------------------
(* Two update_notebook_cell calls in flight                                *)

UpdateCalls == {1, 2}
OtherUpdate(c) == IF c = 1 THEN 2 ELSE 1

\* a notebook of two cells
TwoCellDoc == Join(<<NL>>, <<(<<"a">>), CELL_SEPARATOR, (<<"b">>)>>)
SharedDocs == {ScenarioDoc, TwoCellDoc}

\* the edits of the two calls: call 1 edits cell 0, call 2 cell 1 or 2
RaceArgs(c) ==
    IF c = 1
    THEN [cell_index : {0}, new_content : {<<"B">>, <<"C">>}]
    ELSE [cell_index : {1, 2}, new_content : {<<"D">>, <<"E">>}]

InitRace ==
    /\ shared \in SharedDocs
    /\ updaters = [c \in UpdateCalls |-> [pc |-> "idle"]]
    /\ NotebookOff
    /\ CellsOff
    /\ WaitOff
    /\ Wait2Off
    /\ PagesOff
    /\ ListsOff
    /\ TreeOff
    /\ TextOff
    /\ LogsOff

\* call c up to and including client.workspace.export: the text it read;
\* overlapped records whether the other call had exported and not yet
\* finished
Export(c, args) ==
    /\ updaters[c].pc = "idle"
    /\ InputModeError(args) = ""
    /\ updaters' = [updaters EXCEPT ![c] =
                       [pc |-> "exported", args |-> args, exported |-> shared,
                        overlapped |->
                            updaters[OtherUpdate(c)].pc = "exported"]]
    /\ UNCHANGED <<shared, raceOthers>>

\* call c from the parse of the text it read to its return: the checks, the
\* edits and, when the checks pass, client.workspace.import_ with
\* overwrite=True
Import(c) ==
    /\ updaters[c].pc = "exported"
    /\ LET r == update_notebook_cell(updaters[c].exported, updaters[c].args)
       IN  /\ updaters' = [updaters EXCEPT ![c] =
                              [@ EXCEPT !.pc = "done"] @@ [result |-> r.result]]
           /\ shared' = IF Len(r.calls) = 2 THEN r.calls[2].content ELSE shared
    /\ UNCHANGED raceOthers

NextRace ==
    \/ \E c \in UpdateCalls :
          updaters[c].pc = "idle" /\ \E args \in RaceArgs(c) : Export(c, args)
    \/ \E c \in UpdateCalls : Import(c)

SpecRace == InitRace /\ [][NextRace]_vars

----------------------------------------------------------------------------
(* Vocabulary of the claims about update_notebook_cell                     *)

IsUpdate == request.tool = "databricks_update_notebook_cell"
IsRead == request.tool = "databricks_read_notebook"

SingleMode(a) == "cell_index" \in DOMAIN a /\ "updates" \notin DOMAIN a
                 /\ "new_content" \in DOMAIN a
BatchMode(a) == "cell_index" \notin DOMAIN a /\ "updates" \in DOMAIN a
BothModes(a) == "cell_index" \in DOMAIN a /\ "updates" \in DOMAIN a
NeitherMode(a) == "cell_index" \notin DOMAIN a /\ "updates" \notin DOMAIN a

\* the last call was an update in one of the two input modes
ValidModeUpdate == IsUpdate /\ (SingleMode(request.args) \/ BatchMode(request.args))

\* the edits the caller asked for, in list order
EditsAsked ==
    IF SingleMode(request.args)
    THEN <<[index |-> request.args.cell_index,
            content |-> request.args.new_content]>>
    ELSE request.args.updates

\* the cells of the notebook as it was when the call started
CellsBefore == _parse_notebook_cells(before)
CellsAfter == _parse_notebook_cells(notebook)

OutOfRange(e) == ~(0 <= e.index /\ e.index < Len(CellsBefore))

\* p occurs in c as a substring
Occurs(p, c) ==
    \E i \in 1..(Len(c) - Len(p) + 1) : \A j \in 1..Len(p) : c[i + j - 1] = p[j]

\* the separator token, exact or as the two tokens anywhere in the content
HasSeparatorToken(c) ==
    \/ Occurs(CELL_SEPARATOR, c)
    \/ (Occurs(HashCommand, c) /\ Occurs(Dashes, c))

Failing(e) == OutOfRange(e) \/ HasSeparatorToken(e.content)

\* position of the first edit that fails a check (0 when none does)
FirstFailing ==
    IF \E k \in DOMAIN EditsAsked : Failing(EditsAsked[k])
    THEN CHOOSE k \in DOMAIN EditsAsked :
             /\ Failing(EditsAsked[k])
             /\ \A j \in 1..(k - 1) : ~Failing(EditsAsked[j])
    ELSE 0

Rejected == response.status = "error"
Succeeded == response.status = "success"

ImportsMade == {k \in DOMAIN calls : calls[k].op = "import_"}
ExportsMade == {k \in DOMAIN calls : calls[k].op = "export"}

\* nothing was written and the upstream notebook is what it was
UpstreamUntouched == ImportsMade = {} /\ notebook = before

NamesIndexAndRange(e) ==
    /\ response.message.text = "Cell index out of bounds"
    /\ response.message.idx = e.index
    /\ response.message.ncells = Len(CellsBefore)
    /\ response.message.first = 0
    /\ response.message.last = Len(CellsBefore) - 1

NamesInvalidContent(e) ==
    /\ response.message.text = "Invalid content for cell"
    /\ response.message.idx = e.index

----------------------------------------------------------------------------
(* Claims about update_notebook_cell                                       *)

\* C1 (as stated): when an edit of the batch has an index outside
\* 0 <= index < number of parsed cells, the call is rejected, nothing is
\* written, the upstream notebook is unchanged, and the error names an
\* out-of-range index of the batch and the valid range.
C1_ErrorNamesOutOfRangeIndex ==
    (ValidModeUpdate /\ \E k \in DOMAIN EditsAsked : OutOfRange(EditsAsked[k]))
    => /\ Rejected
       /\ UpstreamUntouched
       /\ \E k \in DOMAIN EditsAsked :
              OutOfRange(EditsAsked[k]) /\ NamesIndexAndRange(EditsAsked[k])

\* C1 (amended): when an edit of the batch has an out-of-range index, the
\* call is rejected, no edit is applied and nothing is written; the error is
\* the one of the first failing edit in list order: it names that edit's
\* index and the valid range when that edit is out of range, and names that
\* edit's index as invalid content otherwise.
C1_OutOfRangeAbortsBatch ==
    (ValidModeUpdate /\ \E k \in DOMAIN EditsAsked : OutOfRange(EditsAsked[k]))
    => /\ Rejected
       /\ UpstreamUntouched
       /\ IF OutOfRange(EditsAsked[FirstFailing])
          THEN NamesIndexAndRange(EditsAsked[FirstFailing])
          ELSE NamesInvalidContent(EditsAsked[FirstFailing])

\* C1 witness: a batch whose first edit is in range and valid and whose
\* second edit is out of range was rejected with the out-of-bounds error
C1_Witness ==
    /\ IsUpdate /\ BatchMode(request.args)
    /\ Len(EditsAsked) = 2
    /\ ~Failing(EditsAsked[1])
    /\ OutOfRange(EditsAsked[2])
    /\ Rejected
    /\ response.message.text = "Cell index out of bounds"

\* C2 (as stated): when an edit's new content contains the separator token,
\* the call is rejected with an error identifying the index of an edit with
\* such content, no edit is applied and nothing is written.
C2_ErrorNamesSeparatorEdit ==
    (ValidModeUpdate
        /\ \E k \in DOMAIN EditsAsked : HasSeparatorToken(EditsAsked[k].content))
    => /\ Rejected
       /\ UpstreamUntouched
       /\ \E k \in DOMAIN EditsAsked :
              /\ HasSeparatorToken(EditsAsked[k].content)
              /\ response.message.idx = EditsAsked[k].index

\* C2 (amended): when an edit's new content contains the separator token,
\* the call is rejected, no edit is applied and nothing is written; the error
\* identifies the index of the first failing edit in list order, which is the
\* edit with the separator unless an out-of-range index fails first.
C2_SeparatorAbortsBatch ==
    (ValidModeUpdate
        /\ \E k \in DOMAIN EditsAsked : HasSeparatorToken(EditsAsked[k].content))
    => /\ Rejected
       /\ UpstreamUntouched
       /\ response.message.idx = EditsAsked[FirstFailing].index
       /\ (~OutOfRange(EditsAsked[FirstFailing])
              => NamesInvalidContent(EditsAsked[FirstFailing]))

\* C2 witness: a batch whose second edit quotes the separator, after a valid
\* first edit, was rejected for its content
C2_Witness ==
    /\ IsUpdate /\ BatchMode(request.args)
    /\ Len(EditsAsked) = 2
    /\ ~Failing(EditsAsked[1])
    /\ ~OutOfRange(EditsAsked[2])
    /\ HasSeparatorToken(EditsAsked[2].content)
    /\ Rejected
    /\ response.message.text = "Invalid content for cell"

\* C3: a call with both cell_index and updates, or with neither, returns a
\* validation error, makes no upstream call and leaves the notebook as it was.
C3_ExclusiveModes ==
    (IsUpdate /\ (BothModes(request.args) \/ NeitherMode(request.args)))
    => /\ Rejected
       /\ calls = <<>>
       /\ notebook = before
       /\ response.message.text \in
              {"Provide either cell_index+new_content OR updates, not both",
               "Must provide either cell_index+new_content or updates array"}

\* C3 witness: a call with both modes, whose edits would all have been
\* applicable, was rejected
C3_Witness ==
    /\ IsUpdate /\ BothModes(request.args)
    /\ "new_content" \in DOMAIN request.args
    /\ 0 <= request.args.cell_index /\ request.args.cell_index < Len(CellsBefore)
    /\ Len(request.args.updates) = 1
    /\ ~Failing(request.args.updates[1])
    /\ Rejected

\* the cells a successful call must leave: each edited cell holds the content
\* of the last edit that names it, every other cell is as parsed
ExpectedCells ==
    [i \in 1..Len(CellsBefore) |->
        LET naming == {k \in DOMAIN EditsAsked : EditsAsked[k].index = i - 1}
        IN  IF naming = {} THEN CellsBefore[i]
            ELSE EditsAsked[CHOOSE k \in naming : \A j \in naming : j <= k].content]

OneWriteOfWholeDocument ==
    /\ Cardinality(ImportsMade) = 1
    /\ \A k \in ImportsMade :
           calls[k].content = _reconstruct_notebook(ExpectedCells)
    /\ notebook = _reconstruct_notebook(ExpectedCells)

\* C4 (as stated): a successful call writes upstream exactly once, the whole
\* reconstructed document with all edits applied, and a call that fails
\* validation makes no upstream call at all.
C4_FailedValidationNeverReachesUpstream ==
    IsUpdate
    => /\ Succeeded => OneWriteOfWholeDocument
       /\ Rejected => (calls = <<>> /\ notebook = before)

\* C4 (amended): a successful call writes upstream exactly once, the whole
\* reconstructed document with all edits applied, after one read; a call that
\* fails validation writes nothing and leaves the notebook as it was (it has
\* read the notebook once unless the input-mode check failed).
C4_OneWritePerSuccessfulCall ==
    IsUpdate
    => /\ Succeeded => (OneWriteOfWholeDocument /\ Cardinality(ExportsMade) = 1)
       /\ Rejected => /\ UpstreamUntouched
                      /\ Cardinality(ExportsMade) =
                             (IF ValidModeUpdate THEN 1 ELSE 0)

\* C4 witness: a batch of two edits of different cells was written
C4_Witness ==
    /\ IsUpdate /\ BatchMode(request.args)
    /\ Succeeded
    /\ Len(EditsAsked) = 2
    /\ EditsAsked[1].index # EditsAsked[2].index
    /\ EditsAsked[2].content # CellsBefore[EditsAsked[2].index + 1]
    /\ notebook # before

\* C5: a batch in which two edits carry the same index is rejected as a
\* validation error and nothing is written.
C5_DuplicateIndexRejected ==
    (IsUpdate /\ BatchMode(request.args)
        /\ \E j, k \in DOMAIN EditsAsked :
               j # k /\ EditsAsked[j].index = EditsAsked[k].index)
    => (Rejected /\ UpstreamUntouched)

\* the position in the caller's view of the cell the update names
ViewPosition == request.args.cell_index - view.cell_offset + 1

FedBackSameCell ==
    /\ IsUpdate /\ SingleMode(request.args)
    /\ view # <<>>
    /\ ViewPosition \in DOMAIN view.cells
    /\ request.args.new_content = view.cells[ViewPosition]

\* C6: when the caller passes the cell text that read_notebook returned for
\* index i back, unchanged, as the new content of cell i, the upstream
\* content of cell i is afterwards what it was before the update (also when
\* the read returned the cell truncated).
C6_FeedbackKeepsCell ==
    FedBackSameCell
    => /\ request.args.cell_index + 1 \in DOMAIN CellsAfter
       /\ CellsAfter[request.args.cell_index + 1]
              = CellsBefore[request.args.cell_index + 1]

\* "a\n\n# COMMAND ----------\n\nB\n\n# COMMAND ----------\n\nc"
ScenarioWritten ==
    <<"a", NL, NL>> \o CELL_SEPARATOR \o <<NL, NL, "B", NL, NL>>
    \o CELL_SEPARATOR \o <<NL, NL, "c">>

ScenarioUpdate ==
    /\ IsUpdate
    /\ before = ScenarioDoc
    /\ request.args = [cell_index |-> 1, new_content |-> <<"B">>]

\* C9: the scenario document parses to the cells a, b, c, and updating index
\* 1 to "B" writes "a\n\n# COMMAND ----------\n\nB\n\n# COMMAND ----------\n\nc".
C9_Scenario ==
    /\ (IsRead /\ before = ScenarioDoc /\ request.args = <<>>)
           => response.cells = <<(<<"a">>), (<<"b">>), (<<"c">>)>>
    /\ ScenarioUpdate
           => /\ Succeeded
              /\ CellsBefore = <<(<<"a">>), (<<"b">>), (<<"c">>)>>
              /\ calls = <<ExportCall, ImportCall(ScenarioWritten)>>
              /\ notebook = ScenarioWritten

\* C9 witness: the scenario update was handled and wrote upstream
C9_Witness == ScenarioUpdate /\ ImportsMade # {}

----------------------------------------------------------------------------
(* Claims about the cell functions                                         *)

\* C7: for every list S of separator-free cell contents,
\* _parse_notebook_cells(_reconstruct_notebook(S)) = S.
C7_RoundTrip ==
    (pc = "parsed" /\ \A k \in DOMAIN input.value : ~HasSeparatorToken(input.value[k]))
    => output = input.value

\* the lines of the input text, its separator lines, and the text before
\* the first and after the last of them
IsSeparatorLine(line) == StartsWith(Strip(line), CELL_SEPARATOR)

TextLinesIn == Split(input.value, NL)
SeparatorsAt == {k \in DOMAIN TextLinesIn : IsSeparatorLine(TextLinesIn[k])}
FirstSeparator == CHOOSE k \in SeparatorsAt : \A j \in SeparatorsAt : k <= j
LastSeparator == CHOOSE k \in SeparatorsAt : \A j \in SeparatorsAt : j <= k
LeadingText == Join(<<NL>>, SubSeq(TextLinesIn, 1, FirstSeparator - 1))
TrailingText ==
    Join(<<NL>>, SubSeq(TextLinesIn, LastSeparator + 1, Len(TextLinesIn)))
MiddleCells ==
    _parse_notebook_cells(
        Join(<<NL>>, SubSeq(TextLinesIn, FirstSeparator, LastSeparator)))

\* C8: a leading or trailing segment whose text is empty yields no cell, and
\* a document without a separator line yields exactly one cell, the whole
\* text.  Between the first and the last separator line the cells are those
\* the parser yields for that part.
C8_EmptyEndsDropped ==
    pc = "parsedText"
    => IF SeparatorsAt = {}
       THEN output = <<input.value>>
       ELSE output = (IF LeadingText = <<>> THEN <<>> ELSE <<LeadingText>>)
                     \o MiddleCells
                     \o (IF TrailingText = <<>> THEN <<>> ELSE <<TrailingText>>)

----------------------------------------------------------------------------
(* Claims about wait_for_run                                               *)

Waiting == waiter.pc \in {"loop", "sleeping", "fetching", "done"}
Returned == waiter.pc = "done"
TimedOut == Returned /\ "status" \in DOMAIN waiter.result
                     /\ waiter.result.status = "TIMEOUT"

\* floor(timeout_minutes * 60 / poll_interval_seconds)
PollBudget == (waiter.timeout_minutes * 60) \div waiter.poll_interval

\* C10: wait_for_run never makes more than floor(timeout_minutes*60 /
\* poll_interval_seconds) status polls; when it returns while the run is not
\* in a terminal state, it returns TIMEOUT after exactly that many polls (6
\* for 1 minute and 10 seconds); and once it has returned it polls no more.
C10_PollBudget ==
    /\ [](Waiting => waiter.polls <= PollBudget)
    /\ []((Returned /\ run.life_cycle_state \notin terminal_states)
            => (TimedOut /\ waiter.polls = PollBudget))
    /\ [](TimedOut => waiter.polls = PollBudget)
    /\ []((TimedOut /\ waiter.timeout_minutes = 1 /\ waiter.poll_interval = 10)
            => waiter.polls = 6)
    /\ [][Returned => waiter' = waiter]_vars

\* C10 witness: the call with timeout 1 minute and poll interval 10 seconds
\* returned TIMEOUT after 6 polls while the run was still running
C10_Witness ==
    /\ TimedOut
    /\ waiter.timeout_minutes = 1 /\ waiter.poll_interval = 10
    /\ waiter.polls = 6
    /\ run.life_cycle_state = "RUNNING"

\* the terminal life cycle states: TERMINATED, SKIPPED, INTERNAL_ERROR
TerminalLifeCycle == {"TERMINATED", "SKIPPED", "INTERNAL_ERROR"}

\* one of the polls of the call w observed a terminal life cycle state
ObservedTerminal(w) ==
    \E i \in DOMAIN w.seen : w.seen[i] \in TerminalLifeCycle

\* the call w returned the assembled run output
ReturnedOutput(w) == w.pc = "done" /\ "state" \in DOMAIN w.result

\* the call w returned the TIMEOUT outcome
ReturnedTimeout(w) ==
    /\ w.pc = "done"
    /\ "status" \in DOMAIN w.result
    /\ w.result.status = "TIMEOUT"

\* the result is the TIMEOUT outcome and cannot be taken for a run output,
\* whether of a successful or of a failed run: it has no run state, and
\* its status is not one a run output carries
DistinctTimeout(w) ==
    /\ ReturnedTimeout(w)
    /\ "state" \notin DOMAIN w.result
    /\ "result_state" \notin DOMAIN w.result
    /\ w.result.status \notin LifeCycleStates \cup {"SUCCESS", "FAILED"}

\* C11: wait_for_run returns the run output exactly when one of its polls
\* observed a terminal life cycle state; then it polls and sleeps no more and
\* the state in the result is terminal; otherwise it returns the TIMEOUT
\* outcome, which is neither a success nor a failure result.
C11_OutputIffTerminalObserved ==
    /\ [](Returned => (ReturnedOutput(waiter) <=> ObservedTerminal(waiter)))
    /\ [](Returned /\ ReturnedOutput(waiter)
            => /\ waiter.result.state \in TerminalLifeCycle
               /\ "status" \notin DOMAIN waiter.result)
    /\ [](Returned /\ ~ObservedTerminal(waiter) => DistinctTimeout(waiter))
    /\ [][(Waiting /\ ObservedTerminal(waiter))
            => (waiter'.polls = waiter.polls /\ waiter'.sleeps = waiter.sleeps)]_vars

\* C11 witness: the call polled a run that was not finished, slept, polled
\* again, saw it TERMINATED with result FAILED and returned its output
C11_Witness ==
    /\ Returned /\ ReturnedOutput(waiter)
    /\ Len(waiter.seen) >= 2
    /\ waiter.seen[1] \notin TerminalLifeCycle
    /\ waiter.sleeps >= 1
    /\ waiter.result.state = "TERMINATED"
    /\ waiter.result.result_state = "FAILED"

\* C12: wait_for_run never invokes the cancel operation and none of its
\* steps changes the upstream run, also not the one that returns TIMEOUT;
\* once the attempt budget is exhausted the only step left is the return of
\* TIMEOUT, even if the run is still going.
C12_TimeoutDoesNotCancel ==
    /\ [](Waiting => \A i \in DOMAIN waiter.calls :
                         waiter.calls[i] # "jobs.cancel_run")
    /\ [][waiter' # waiter => run' = run]_vars
    /\ [][(waiter.pc = "loop" /\ waiter.iteration >= PollBudget
             /\ waiter' # waiter)
            => (TimedOut' /\ waiter'.polls = waiter.polls)]_vars
    /\ [][TimedOut => waiter' = waiter]_vars

\* C12 witness: the call timed out after two polls while the run was
\* RUNNING, nobody had cancelled the run, and the run is RUNNING still
C12_Witness ==
    /\ TimedOut
    /\ waiter.polls = 2
    /\ waiter.seen[2] = "RUNNING"
    /\ cancel = <<>>
    /\ run.life_cycle_state = "RUNNING"

----------------------------------------------------------------------------
(* Claims about two wait_for_run calls in flight                           *)

Started(w) == w.pc # "idle"

\* floor(timeout_minutes * 60 / poll_interval_seconds) of the call w
OwnBudget(w) == (w.timeout_minutes * 60) \div w.poll_interval

NonTerminalSeen(w) ==
    Cardinality({i \in DOMAIN w.seen : w.seen[i] \notin TerminalLifeCycle})

\* counter and outcome of the call w follow from its own arguments and the
\* states its own polls observed
DeterminedByOwn(w) ==
    /\ w.max_iterations = OwnBudget(w)
    /\ w.polls = Len(w.seen)
    /\ w.iteration = NonTerminalSeen(w)
    /\ w.pc = "done"
       => IF ObservedTerminal(w)
          THEN ReturnedOutput(w) /\ w.result.state = w.seen[Len(w.seen)]
          ELSE ReturnedTimeout(w) /\ Len(w.seen) = OwnBudget(w)

\* C13: two wait_for_run calls in flight share no state: a step of one call
\* leaves the other call as it is; each poll of a call observes the state of
\* the run the call names; the attempt counter and the outcome of a call
\* follow from its own arguments and the states its own polls observed; and
\* the outcome of a call that has returned stays what it is whatever the
\* other call does.
C13_CallsShareNoState ==
    /\ [](\A c \in WaitCalls : Started(waiters[c]) => DeterminedByOwn(waiters[c]))
    /\ [][\A c \in WaitCalls :
            waiters'[c] # waiters[c]
            => /\ waiters'[OtherCall(c)] = waiters[OtherCall(c)]
               /\ runs' = runs]_vars
    /\ [][\A c \in WaitCalls :
            (Started(waiters[c]) /\ waiters'[c].polls > waiters[c].polls)
            => waiters'[c].seen[Len(waiters'[c].seen)]
                 = runs[waiters[c].run_id].life_cycle_state]_vars
    /\ [][\A c \in WaitCalls :
            waiters[c].pc = "done" => waiters'[c] = waiters[c]]_vars

\* C13 witness: call 2 arrived while call 1 was in flight, with another run
\* and other arguments; call 1 timed out, call 2 returned the output of its
\* run after two polls
C13_Witness ==
    /\ ReturnedTimeout(waiters[1])
    /\ waiters[1].polls = 1
    /\ ReturnedOutput(waiters[2])
    /\ waiters[2].concurrent
    /\ waiters[2].run_id # waiters[1].run_id
    /\ waiters[2].poll_interval # waiters[1].poll_interval
    /\ waiters[2].polls = 2

----------------------------------------------------------------------------
(* Claims about list_notebooks and read_notebook windows                   *)

PageCalled == pager.phase \in {"probed", "walking", "walked"}
Listing == pager.tool = "databricks_list_notebooks"

\* the offset and the limit the last call asked for
ReqOffset == Get(pager.args, OffsetKey(pager.tool), 0)
LimitGiven == LimitKey(pager.tool) \in DOMAIN pager.args
ReqLimit == pager.args[LimitKey(pager.tool)]

\* the upstream collection in order: the paths of the directory, or the
\* cells of the notebook
FullSequence ==
    IF Listing
    THEN [i \in DOMAIN collection |-> collection[i].path]
    ELSE _parse_notebook_cells(collection)

Total == Len(FullSequence)

\* the items of a window as they are compared with the collection
ItemsOf(window) ==
    IF Listing THEN [i \in DOMAIN window |-> window[i].path] ELSE window

PageItems == pager.result[ItemsKey(pager.tool)]
PageReturned == Len(PageItems)

HasMore == "has_more" \in DOMAIN pager.result /\ pager.result.has_more = TRUE

\* C14: for every offset >= 0 and limit >= 0 (or no limit), has_more is
\* true exactly when offset + returned < total and is absent otherwise,
\* next_offset is present exactly when has_more is and then is offset +
\* returned, and with offset >= total the items are empty and has_more is
\* absent; total is the size of the upstream collection.
C14_HasMoreAndNextOffset ==
    (PageCalled /\ ReqOffset >= 0 /\ (LimitGiven => ReqLimit >= 0))
    => /\ HasMore <=> (ReqOffset + PageReturned < Total)
       /\ "has_more" \in DOMAIN pager.result <=> HasMore
       /\ "next_offset" \in DOMAIN pager.result <=> HasMore
       /\ HasMore => pager.result.next_offset = ReqOffset + PageReturned
       /\ ReqOffset >= Total => (PageItems = <<>> /\ ~HasMore)
       /\ IF Listing THEN pager.result.total_count = Total
                     ELSE pager.result.total_cells = Total

\* C14 witness: list_notebooks with offset 1 and limit 1 on a directory of
\* three objects returned one item, has_more and next_offset 2
C14_Witness ==
    /\ pager.phase = "probed" /\ Listing
    /\ Total = 3
    /\ ReqOffset = 1 /\ LimitGiven /\ ReqLimit = 1
    /\ PageReturned = 1
    /\ HasMore /\ pager.result.next_offset = 2

\* a cell as read_notebook shows it: cut to the per-cell budget, with the
\* truncation note appended, when it is longer
Shown(cell) == truncate_text(cell, MAX_CELL_CONTENT, "cell")[1]

WalkDone == pager.phase = "walked"

----------------------------------------------------------------------------
(* Claims about the list tools                                             *)

Listed == lister.phase = "done"

\* the key of the result that holds the items, and of the argument that
\* asks for a limit
ListItemsKey(tool) ==
    CASE tool = "databricks_list_notebooks" -> "items"
      [] tool = "databricks_list_clusters" -> "clusters"
      [] tool = "notion_list_users" -> "users"
      [] OTHER -> "results"

ListLimitKey(tool) ==
    IF tool \in {"databricks_list_notebooks", "databricks_list_clusters"}
    THEN "limit" ELSE "page_size"

ListItems == lister.result[ListItemsKey(lister.tool)]

\* the caller asked for more than the cap
AskedBeyondCap ==
    /\ ListLimitKey(lister.tool) \in DOMAIN lister.args
    /\ lister.args[ListLimitKey(lister.tool)] > LimitCap

\* the result tells the limit that was used
ReportsEffectiveLimit ==
    \/ "limit" \in DOMAIN lister.result /\ lister.result.limit = LimitCap
    \/ "page_size" \in DOMAIN lister.result /\ lister.result.page_size = LimitCap
    \/ "message" \in DOMAIN lister.result /\ lister.result.message.limit = LimitCap

\* C16: every list operation clamps the requested limit or page_size to the
\* cap (100), so no result holds more items than the cap, and when the
\* request was clamped the result reports the limit that was used.
C16_LimitClampedAndReported ==
    Listed
    => /\ Len(ListItems) <= LimitCap
       /\ AskedBeyondCap => ReportsEffectiveLimit

ClusterListed == Listed /\ lister.tool = "databricks_list_clusters"

FilterAsked == Get(lister.args, "filter_by", "all")
ClusterLimitAsked == Get(lister.args, "limit", DefaultClusterLimit)

\* the cluster satisfies the state filter
Satisfies(filter_by, cluster) ==
    CASE filter_by = "running" -> cluster.state = "RUNNING"
      [] filter_by = "terminated" -> cluster.state = "TERMINATED"
      [] OTHER -> TRUE

\* the upstream clusters that satisfy the filter, in upstream order
MatchingClusters ==
    SelectSeq(listed, LAMBDA cluster : Satisfies(FilterAsked, cluster))

\* C17: list_clusters filters before it counts and cuts: total_matched is
\* the number of upstream clusters that satisfy the filter, and the clusters
\* returned are the first min(limit, cap, total_matched) of them in upstream
\* order, none twice.
C17_FilterBeforeCountAndSlice ==
    ClusterListed
    => LET n == Min(Min(ClusterLimitAsked, LimitCap), Len(MatchingClusters))
       IN  /\ lister.result.total_matched = Len(MatchingClusters)
           /\ lister.result.returned = n
           /\ Len(lister.result.clusters) = n
           /\ \A i \in 1..n :
                 lister.result.clusters[i].cluster_id =
                     MatchingClusters[i].cluster_id
           /\ \A i, j \in 1..n :
                 i # j => lister.result.clusters[i].cluster_id #
                          lister.result.clusters[j].cluster_id

\* C17 witness: of a terminated and two running clusters, filter running
\* with limit 1 counted two and returned the first running one, cluster 2
C17_Witness ==
    /\ ClusterListed
    /\ Len(listed) = 3
    /\ listed[1].state = "TERMINATED"
    /\ listed[2].state = "RUNNING" /\ listed[3].state = "RUNNING"
    /\ FilterAsked = "running"
    /\ "limit" \in DOMAIN lister.args /\ lister.args.limit = 1
    /\ lister.result.total_matched = 2
    /\ lister.result.returned = 1
    /\ lister.result.clusters[1].cluster_id = 2

----------------------------------------------------------------------------
(* Claims about get_page_content                                           *)

Fetched == fetcher.phase = "done"
Eager == Get(fetcher.args, "fetch_all", TRUE)
GotBlocks == "blocks" \in DOMAIN fetcher.result

\* the page or block the caller named
Root == fetcher.args.page_id

IsPrefix(a, b) == Len(a) <= Len(b) /\ \A k \in 1..Len(a) : a[k] = b[k]

\* every block below the named one that the upstream holds
Paths == UNION {[1..n -> 1..MaxWidth] : n \in 0..MaxDepth}
Reachable ==
    {id \in Paths :
        /\ Len(id) > Len(Root) /\ IsPrefix(Root, id)
        /\ \A k \in (Len(Root) + 1)..Len(id) : id[k] <= tree.shape.width
        /\ \A n \in Len(Root)..(Len(id) - 1) :
              HasChildren(tree.shape, SubSeq(id, 1, n))}

\* the subtree below a block as the upstream holds it: its children in
\* order, each with its own subtree under children when it has children
RECURSIVE Materialized(_, _)
Materialized(shape, id) ==
    LET kids == ChildrenOf(shape, id)
    IN  [i \in DOMAIN kids |->
            format_block(kids[i])
            @@ (IF kids[i].has_children
                THEN [children |-> Materialized(shape, kids[i].id)]
                ELSE <<>>)]

\* the ids of the blocks of a returned tree, parents before their children
RECURSIVE IdsIn(_)
IdsIn(blocks) ==
    IF blocks = <<>> THEN <<>>
    ELSE LET first == blocks[1]
         IN  <<first.id>>
             \o (IF "children" \in DOMAIN first THEN IdsIn(first.children) ELSE <<>>)
             \o IdsIn(Tail(blocks))

\* the first place where two block ids part, 0 when one is a prefix
PartsAt(a, b) ==
    IF \E k \in 1..Min(Len(a), Len(b)) : a[k] # b[k]
    THEN CHOOSE k \in 1..Min(Len(a), Len(b)) :
            a[k] # b[k] /\ \A m \in 1..(k - 1) : a[m] = b[m]
    ELSE 0

\* the requests were made one after the other, depth first: none twice,
\* the children of a block are requested after a window of its parent was,
\* and every request into the subtree of a block comes before every request
\* into the subtree of a later sibling
DepthFirst(log) ==
    /\ \A i, j \in DOMAIN log : i # j => log[i] # log[j]
    /\ \A j \in DOMAIN log :
          log[j].block_id # Root
          => \E i \in 1..(j - 1) :
                log[i].block_id = SubSeq(log[j].block_id, 1, Len(log[j].block_id) - 1)
    /\ \A i, j \in DOMAIN log :
          LET a == log[i].block_id
              b == log[j].block_id
              k == PartsAt(a, b)
          IN  (i < j /\ k > 0) => a[k] < b[k]

HitBroken == \E i \in DOMAIN fetcher.log : fetcher.log[i].block_id \in tree.broken

\* C19: when an upstream fetch fails partway through an eager traversal, the
\* call returns an upstream error and no tree at all, and the failed request
\* was the last one made.
C19_FailureReturnsNoPartialTree ==
    (Fetched /\ Eager /\ HitBroken)
    => /\ fetcher.result = NotionApiError
       /\ ~GotBlocks
       /\ fetcher.log[Len(fetcher.log)].block_id \in tree.broken
       /\ \A i \in 1..(Len(fetcher.log) - 1) :
             fetcher.log[i].block_id \notin tree.broken

\* C19 witness: on a three-level page the first level was fetched, then the
\* fetch of the children of block 2 failed; the result is the error
C19_Witness ==
    /\ Fetched /\ Eager /\ Root = <<>>
    /\ tree.shape.depth = 3 /\ tree.shape.width = 3
    /\ tree.broken = {<<2>>}
    /\ Len(fetcher.log) >= 2
    /\ fetcher.log[1].block_id = <<>>
    /\ fetcher.log[Len(fetcher.log)].block_id = <<2>>
    /\ fetcher.result = NotionApiError

----------------------------------------------------------------------------
(* Claims about truncate_text and call_tool                                *)

TruncateDone == stage = "truncated"
Replied == stage = "replied"

\* the text returned by truncate_text and, for the Databricks server, the
\* metadata returned with it
ReturnedText == IF payload.server = "databricks" THEN reply[1] ELSE reply
ReturnedMetadata == reply[2]

\* the field is a text longer than the budget
OverLong == ~payload.field.is_none /\ Len(payload.field.text) > payload.max_size

\* C21: truncate_text returns an empty, absent or short enough text as it
\* is, with empty metadata; a longer text comes back as its first max_size
\* characters followed by the suffix, so within max_size plus the suffix
\* length, and the metadata, keyed by the field name, gives the total and
\* the shown size; truncation is reported exactly for the longer texts
C21_TruncateTextContract ==
    TruncateDone =>
        LET t == payload.field
            b == payload.max_size
        IN  /\ t.is_none => ReturnedText = None
            /\ ~t.is_none =>
                /\ Len(ReturnedText)
                       <= b + Len(TruncationSuffix(b, Len(t.text)))
                /\ Len(t.text) <= b => ReturnedText = t.text
                /\ Len(t.text) > b =>
                    /\ Take(ReturnedText, b) = Take(t.text, b)
                    /\ ReturnedText
                         = Take(t.text, b) \o TruncationSuffix(b, Len(t.text))
            /\ payload.server = "databricks" =>
                /\ (DOMAIN ReturnedMetadata # {}) <=> OverLong
                /\ OverLong =>
                    /\ DOMAIN ReturnedMetadata = {payload.field_name}
                    /\ ReturnedMetadata[payload.field_name]
                         = [truncated |-> TRUE, total_size |-> Len(t.text),
                            shown_size |-> b]

\* a text longer than a positive budget was truncated by the Databricks server
C21_Witness ==
    /\ TruncateDone /\ payload.server = "databricks"
    /\ OverLong /\ payload.max_size >= 1
    /\ DOMAIN ReturnedMetadata = {payload.field_name}

\* the most a size-checked response may hold: the budget and the suffix
ResponseBudget ==
    MAX_TEXT_SIZE + Len(TruncationSuffix(MAX_TEXT_SIZE, OverBudget))

\* C22: the text of every call_tool response, of either server and for
\* results and errors alike, is within MAX_TEXT_SIZE plus the suffix
C22_ResponseWithinBudget ==
    Replied => Len(reply) <= ResponseBudget

----------------------------------------------------------------------------
(* Claims about upstream failures and about runs finished before the wait  *)

\* the call ended with the error response of call_tool
FailedCall == waiter.pc = "failed"

\* the upstream failures the call met
FailuresMet == IF "failures" \in DOMAIN waiter THEN waiter.failures ELSE <<>>

\* C23: when a status poll in the loop of wait_for_run, or the fetch of the
\* output after it, fails upstream, the call ends at once with an error
\* response that carries the type and the message of the failure; the error
\* is neither a run output nor the TIMEOUT outcome, the failed call is not
\* made again and no other upstream call follows.
C23_UpstreamFailurePropagated ==
    /\ [](FailuresMet # <<>> =>
            /\ FailedCall
            /\ Len(FailuresMet) = 1
            /\ DOMAIN waiter.result = {"error"}
            /\ waiter.result.error
                 = ErrorPrefix \o FailuresMet[1].type \o <<":", " ">>
                     \o FailuresMet[1].text)
    /\ [](FailedCall =>
            /\ FailuresMet # <<>>
            /\ ~ReturnedOutput(waiter) /\ ~ReturnedTimeout(waiter)
            /\ StartsWith(waiter.result.error, ErrorPrefix)
            /\ Contains(waiter.result.error, FailuresMet[1].text))
    /\ [][FailedCall => waiter' = waiter]_vars

\* C23 witness: the second status poll of the loop failed upstream with
\* message 503 after the first one saw the run going, and the call ended
\* with the error response
C23_Witness ==
    /\ FailedCall
    /\ waiter.polls = 2 /\ waiter.sleeps = 1
    /\ Len(waiter.seen) = 1
    /\ FailuresMet[1].text = <<"5", "0", "3">>
    /\ Len(waiter.calls) = 2

\* the run was in a terminal state when the call was made
TerminalAtCall ==
    "at_call" \in DOMAIN waiter /\ waiter.at_call \in terminal_states

\* C26: a wait_for_run call made when the run is already in a terminal
\* state returns the output of the run, never TIMEOUT
C26_TerminalAtCallReturnsOutput ==
    (Returned /\ TerminalAtCall) => ReturnedOutput(waiter)

----------------------------------------------------------------------------
(* Claims about get_run_logs                                               *)

LogCalled == reader.phase \in {"probed", "walking", "walked"}
LogWalking == reader.phase \in {"walking", "walked"}
LogWalkDone == reader.phase = "walked"

\* the full log text held upstream
FullLog == IF logstore.has_logs THEN logstore.logs ELSE <<>>

\* the chunks read so far, one after the other
ChunksRead == Join(<<>>, reader.chunks)

\* C24 as stated: the chunks of a caller that starts at offset 0 and
\* follows next_offset until logs_truncated_by_limit is false concatenate
\* to the full log, and logs_total_size is always the length of the full log
C24_ChunksReproduceLog ==
    /\ LogWalking => reader.result.logs_total_size = Len(FullLog)
    /\ LogWalkDone => ChunksRead = FullLog

\* C24: as above for a log that is not empty; for an empty or absent log the
\* one response carries the placeholder text in place of the log, with
\* logs_total_size 0
C24_ChunksCoverLog ==
    /\ LogWalking => reader.result.logs_total_size = Len(FullLog)
    /\ (LogWalkDone /\ FullLog # <<>>) => ChunksRead = FullLog
    /\ (LogWalkDone /\ FullLog = <<>>) =>
           /\ reader.chunks = <<NoLogsAvailable>>
           /\ reader.steps = 1
           /\ reader.result.logs_total_size = 0

\* C24 witness: a log of four characters was read in two chunks of two
C24_Witness ==
    /\ LogWalkDone
    /\ Len(FullLog) = 4
    /\ reader.steps = 2
    /\ Len(reader.chunks[1]) = 2
    /\ ChunksRead = FullLog

\* C27: whenever a get_run_logs result names a next_offset, it is greater
\* than the offset of the request
C27_NextOffsetAdvances ==
    (LogCalled /\ "next_offset" \in DOMAIN reader.result)
        => reader.result.next_offset > Get(reader.args, "offset", 0)

----------------------------------------------------------------------------
(* Claims about the separator token inside cells                           *)

\* the cell would be accepted as the content of an edit
AcceptedAsContent(cell) == _validate_cell_content(cell)[1]

\* C25: every cell that _parse_notebook_cells produces from a document is
\* free of the separator token as _validate_cell_content judges it
C25_ParsedCellsFreeOfSeparator ==
    pc = "parsedText" =>
        \A k \in DOMAIN output : AcceptedAsContent(output[k])

----------------------------------------------------------------------------
(* Claims about two update_notebook_cell calls in flight                   *)

UpdateDone(c) == updaters[c].pc = "done"
UpdateSucceeded(c) == UpdateDone(c) /\ updaters[c].result.status = "success"

\* the cells of the upstream notebook
SharedCells == _parse_notebook_cells(shared)

\* the edit of call c is in the upstream notebook
EditPresent(c) ==
    LET idx == updaters[c].args.cell_index
    IN  /\ idx + 1 \in DOMAIN SharedCells
        /\ Strip(SharedCells[idx + 1]) = updaters[c].args.new_content

\* the two calls overlapped: one exported between the export and the import
\* of the other
Overlapped == \E c \in UpdateCalls : UpdateDone(c) /\ updaters[c].overlapped

\* C28: when both calls have succeeded, the upstream notebook holds the
\* edits of both
C28_NoLostUpdate ==
    (\A c \in UpdateCalls : UpdateSucceeded(c))
        => \A c \in UpdateCalls : EditPresent(c)

----------------------------------------------------------------------------
(* Claims about the cells an update leaves alone and the cell addresses    *)

\* the indices (from 0) the edits of the call name
EditedIndices == {EditsAsked[k].index : k \in DOMAIN EditsAsked}

\* the edit of the list that is applied last to its index
LastForIndex(k) ==
    \A j \in DOMAIN EditsAsked :
        EditsAsked[j].index = EditsAsked[k].index => j <= k

\* C29: after a successful update every cell whose index is not in the edit
\* list parses from the written notebook exactly as it parsed before
C29_UneditedCellsUnchanged ==
    (ValidModeUpdate /\ Succeeded) =>
        \A i \in DOMAIN CellsBefore :
            (i - 1) \notin EditedIndices =>
                /\ i \in DOMAIN CellsAfter
                /\ CellsAfter[i] = CellsBefore[i]

\* C30: after a successful update the written notebook parses to as many
\* cells as the notebook had before, and the cell at every edited index is
\* the content of the edit up to blank lines around it
C30_AddressingPreserved ==
    (ValidModeUpdate /\ Succeeded) =>
        /\ Len(CellsAfter) = Len(CellsBefore)
        /\ \A k \in DOMAIN EditsAsked :
               LastForIndex(k) =>
                   Strip(CellsAfter[EditsAsked[k].index + 1])
                       = Strip(EditsAsked[k].content)

====
